---- MODULE Spec2Model ----
(***************************************************************************)
(* A model of the template-filling, URL-formatting and constrained-random  *)
(* sampling code of The-Method (src/lib/randomness.ts,                     *)
(* src/lib/search-settings.ts, src/routes/+page.svelte).                   *)
(*                                                                         *)
(* Representation.                                                         *)
(*  - A JavaScript string is a sequence of one-character strings.          *)
(*  - Math.random() is k / RandDen for k in 0 .. RandDen-1, or the largest  *)
(*    value below 1.                                                       *)
(*  - config.center and config.spread are percentages: c / PctDen.         *)
(*  - The Box-Muller variate z0 and the Student-t ratio are z / ZDen for   *)
(*    z in -ZMax .. ZMax: any real draw, to the model's resolution.        *)
(*  - A real number x of the sampler is held as the integer x * Scale,     *)
(*    Scale = PctDen * ZDen, which is exact for every value computed.      *)
(***************************************************************************)
EXTENDS Integers, Sequences, FiniteSets, TLC

\* ------------------------------------------------------------------------
\* Bounds of the model
\* ------------------------------------------------------------------------
MaxAbs == 2
MaxAttemptsBound == 2
RandDen == 4
ZDen == 2
ZMax == 4
MaxRunLen == 2
MaxRuns == 2
MaxSamples == 3
MaxPoints == 4
MaxChanges == 3
MaxHistory == 3
MaxStored == 2

\* Fixed-point units and program constants
PctDen == 100
SpreadFloorPct == 5
DefaultDegreesOfFreedom == 5
\* 1 / HeightDen is the floor 0.0001 of the tallest height of a curve
HeightDen == 10000
Scale == PctDen * ZDen

VARIABLES
    \* generateConstrainedInteger(min, max, config, maxAttempts)
    \* drawn is a history variable: the rounded draws made so far, in order
    min, max, config, maxAttempts, attempts, value, drawn, ipc, ret,
    \* generateConstrainedDate(startDate, endDate, config, maxAttempts)
    startTime, endTime, dconfig, dmaxAttempts, dattempts, time, dpc, dret,
    \* formatSearchTermToURL / fillSpecifierTemplate: arguments, draws and results
    pattern, specifier, formattedDate, dateOverride, integerConfig, upc, draws, filled, out,
    \* handleFindVideos: the draws of its own call of fillSpecifierTemplate and the
    \* entry it puts in front of searchHistory
    historyDraws, entry,
    \* validateDistribution(config, min, max, sampleSize); naturalCount is a history
    \* variable: the samples whose unclamped draw landed inside [min, max]
    vconfig, vmin, vmax, sampleSize, vi, successCount, naturalCount, vpc, vret,
    \* two calls of generateConstrainedInteger that are given the same Math.random()
    pmin, pmax, pdraw, pconfigA, pconfigB, plimitA, plimitB, pretA, pretB, ppc,
    \* generatePDFCurve(config, pointCount): the loop index, data and the returned curve
    gconfig, pointCount, gi, data, curve, gpc,
    \* generateDatePDFCurve(config, startDate, endDate, pointCount), called with the
    \* same config and pointCount: the loop index, data and the returned points
    gstartTime, gendTime, gj, gdata, gcurve, gdpc,
    \* DistributionGraph.svelte: the config prop, the component's state, the frames
    \* the browser holds, the step of Svelte's update that is due, and two history
    \* variables: the config the canvas shows and the number of config changes
    propConfig, canvas, lastConfigString, animationFrameId, frames, frameCount, flush,
    drawnConfig, changes,
    \* +page.svelte: the pool of search terms, the filters of the page, the terms
    \* the filters leave, and what getRandomActiveSearchTerm returned
    allSearchTerms, selectedAge, selectedGenres, selectedNames, previousAvailable,
    activeSearchTerms, picked,
    \* +page.svelte: the search history, its persistence switch and warning, the
    \* cookies of the document; lastHandler is a history variable, the handler
    \* that ran last
    searchHistory, enablePersistentHistory, showDisableWarning, cookies, lastHandler,
    \* +page.svelte: the switch of the custom terms, the item customSearchTerms
    \* of localStorage as the list it holds, the term loaded into the form;
    \* poolHandler is a history variable, the handler that ran last
    enableUserTerms, customSearchTerms, selectedTermIndex, poolHandler

intVars == <<min, max, config, maxAttempts, attempts, value, drawn, ipc, ret>>
urlVars ==
    <<pattern, specifier, formattedDate, dateOverride, integerConfig, upc, draws, filled, out,
      historyDraws, entry>>
dateVars == <<startTime, endTime, dconfig, dmaxAttempts, dattempts, time, dpc, dret>>
valVars == <<vconfig, vmin, vmax, sampleSize, vi, successCount, naturalCount, vpc, vret>>
\* The state of the functions modelled after the first three
pairVars == <<pmin, pmax, pdraw, pconfigA, pconfigB, plimitA, plimitB, pretA, pretB, ppc>>
pdfVars == <<gconfig, pointCount, gi, data, curve, gpc, gstartTime, gendTime, gj, gdata, gcurve, gdpc>>
graphVars ==
    <<propConfig, canvas, lastConfigString, animationFrameId, frames, frameCount, flush,
      drawnConfig, changes>>
\* The state of the components and of the page
termVars ==
    <<allSearchTerms, selectedAge, selectedGenres, selectedNames, previousAvailable,
      activeSearchTerms, picked>>
histVars == <<searchHistory, enablePersistentHistory, showDisableWarning, cookies, lastHandler>>
poolVars == <<enableUserTerms, customSearchTerms, selectedTermIndex, poolHandler>>
pageVars == <<termVars, histVars, poolVars>>
uiVars == <<graphVars, pageVars>>
libVars == <<intVars, dateVars, urlVars, valVars, pairVars, pdfVars>>
moreVars == <<valVars, pairVars, pdfVars, uiVars>>

\* ------------------------------------------------------------------------
\* randomness.ts
\* ------------------------------------------------------------------------
DistributionTypes == {"uniform", "bell", "z-curve", "t-curve"}

\* degreesOfFreedom = 0 stands for an absent (undefined) field
DistributionConfig ==
    [type : DistributionTypes,
     center : {0, PctDen \div 2, PctDen},
     spread : {0, PctDen \div 2},
     degreesOfFreedom : {0, 3}]

\* k < RandDen stands for Math.random() = k / RandDen, and k = RandDen for the
\* largest value Math.random() can return, just below 1
RandomDraws == 0 .. RandDen
NormalDraws == (0 - ZMax) .. ZMax

MathMax(a, b) == IF a >= b THEN a ELSE b
MathMin(a, b) == IF a <= b THEN a ELSE b

\* Math.floor(num / den), den > 0
MathFloor(num, den) == num \div den

\* Math.round of the scaled real xS: floor(x + 0.5)
MathRound(xS) == MathFloor(2 * xS + Scale, 2 * Scale)

\* Math.floor(Math.random() * n) for an integer n
floorOfRandomTimes(k, n) ==
    IF k = RandDen THEN (IF n > 0 THEN n - 1 ELSE n) ELSE MathFloor(k * n, RandDen)

uniformDistributionMutant(lo, hi, k) == floorOfRandomTimes(k, hi - lo + 1) + lo + 1
\* Math.floor(Math.random() * (max - min + 1)) + min
uniformDistribution(lo, hi, k) == floorOfRandomTimes(k, hi - lo + 1) + lo

\* z0 * stdDev + mean; meanS is scaled by Scale, stdDevP by PctDen, z by ZDen
normalDistribution(meanS, stdDevP, z) == z * stdDevP + meanS

zCurveDistribution(meanS, stdDevP, z) == normalDistribution(meanS, stdDevP, z)

\* mean + t * scale, t = z / sqrt(chiSquared / degreesOfFreedom) held as t / ZDen
tDistribution(meanS, scaleP, degreesOfFreedom, t) == meanS + t * scaleP

\* config.degreesOfFreedom || 5
dfOrDefault(cfg) ==
    IF cfg.degreesOfFreedom = 0 THEN DefaultDegreesOfFreedom ELSE cfg.degreesOfFreedom

\* centerValue = min + (range * config.center), scaled by Scale
centerValueOf(lo, hi, cfg) == (lo * PctDen + (hi - lo) * cfg.center) * ZDen

\* stdDev = range * Math.max(config.spread, 0.05), scaled by PctDen
stdDevOf(lo, hi, cfg) == (hi - lo) * MathMax(cfg.spread, SpreadFloorPct)

\* The switch of the do-while body: one unrounded draw, scaled by Scale (the
\* default branch is dead code for a config of type DistributionType)
sampleOnce(lo, hi, cfg, z) ==
    CASE cfg.type = "bell" ->
            normalDistribution(centerValueOf(lo, hi, cfg), stdDevOf(lo, hi, cfg), z)
      [] cfg.type = "z-curve" ->
            zCurveDistribution(centerValueOf(lo, hi, cfg), stdDevOf(lo, hi, cfg), z)
      [] cfg.type = "t-curve" ->
            tDistribution(centerValueOf(lo, hi, cfg), stdDevOf(lo, hi, cfg),
                          dfOrDefault(cfg), z)

loopAgainMutant(v, lo, hi, n, limit) == n < limit
\* while ((value < min || value > max) && attempts < maxAttempts)
loopAgain(v, lo, hi, n, limit) == (v < lo \/ v > hi) /\ n < limit

ClampMutant(lo, hi, v) == v
\* Math.max(min, Math.min(max, value))
Clamp(lo, hi, v) == MathMax(lo, MathMin(hi, v))

\* new Date(t): TimeClip truncates the time value toward zero
TimeClip(num, den) == IF num >= 0 THEN num \div den ELSE 0 - ((0 - num) \div den)

\* ---- generateConstrainedInteger ----------------------------------------
IntInit ==
    /\ min \in (0 - MaxAbs) .. MaxAbs
    /\ max \in min .. MaxAbs
    /\ config \in DistributionConfig
    /\ maxAttempts \in 0 .. MaxAttemptsBound
    /\ attempts = 0
    /\ value = 0
    /\ drawn = <<>>
    /\ ipc = "start"
    /\ ret = 0

\* if (config.type === 'uniform') return uniformDistribution(min, max)
GciUniform ==
    /\ ipc = "start"
    /\ config.type = "uniform"
    /\ \E k \in RandomDraws : ret' = uniformDistribution(min, max, k)
    /\ ipc' = "done"
    /\ UNCHANGED <<min, max, config, maxAttempts, attempts, value, drawn>>
    /\ UNCHANGED <<dateVars, urlVars, moreVars>>

\* one pass of the do-while body and its loop test
GciDraw ==
    /\ ipc \in {"start", "loop"}
    /\ config.type # "uniform"
    /\ \E z \in NormalDraws : value' = MathRound(sampleOnce(min, max, config, z))
    /\ attempts' = attempts + 1
    /\ drawn' = Append(drawn, value')
    /\ ipc' = IF loopAgain(value', min, max, attempts', maxAttempts) THEN "loop" ELSE "clamp"
    /\ UNCHANGED <<min, max, config, maxAttempts, ret>>
    /\ UNCHANGED <<dateVars, urlVars, moreVars>>

\* return Math.max(min, Math.min(max, value))
GciReturn ==
    /\ ipc = "clamp"
    /\ ret' = Clamp(min, max, value)
    /\ ipc' = "done"
    /\ UNCHANGED <<min, max, config, maxAttempts, attempts, value, drawn>>
    /\ UNCHANGED <<dateVars, urlVars, moreVars>>

IntNext == GciUniform \/ GciDraw \/ GciReturn

\* ---- generateConstrainedDate -------------------------------------------
DateIdle ==
    /\ startTime = 0 /\ endTime = 0
    /\ dconfig = [type |-> "uniform", center |-> 0, spread |-> 0, degreesOfFreedom |-> 0]
    /\ dmaxAttempts = 0 /\ dattempts = 0 /\ time = 0 /\ dpc = "idle" /\ dret = 0

IntIdle ==
    /\ min = 0 /\ max = 0
    /\ config = [type |-> "uniform", center |-> 0, spread |-> 0, degreesOfFreedom |-> 0]
    /\ maxAttempts = 0 /\ attempts = 0 /\ value = 0 /\ drawn = <<>> /\ ipc = "idle" /\ ret = 0

DateInit ==
    /\ startTime \in (0 - MaxAbs) .. MaxAbs
    /\ endTime \in startTime .. MaxAbs
    /\ dconfig \in DistributionConfig
    /\ dmaxAttempts \in 0 .. MaxAttemptsBound
    /\ dattempts = 0
    /\ time = 0
    /\ dpc = "start"
    /\ dret = 0

\* randomTime = startTime + Math.random() * range; return new Date(randomTime)
uniformDate(lo, hi, k) ==
    IF k = RandDen
    THEN (IF hi = lo THEN lo ELSE IF hi > 0 THEN hi - 1 ELSE hi)
    ELSE TimeClip(lo * RandDen + k * (hi - lo), RandDen)

GcdUniform ==
    /\ dpc = "start"
    /\ dconfig.type = "uniform"
    /\ \E k \in RandomDraws : dret' = uniformDate(startTime, endTime, k)
    /\ dpc' = "done"
    /\ UNCHANGED <<startTime, endTime, dconfig, dmaxAttempts, dattempts, time>>
    /\ UNCHANGED <<intVars, urlVars, moreVars>>

\* one pass of the do-while body and its loop test; time is scaled by Scale
GcdDraw ==
    /\ dpc \in {"start", "loop"}
    /\ dconfig.type # "uniform"
    /\ \E z \in NormalDraws : time' = sampleOnce(startTime, endTime, dconfig, z)
    /\ dattempts' = dattempts + 1
    /\ dpc' = IF loopAgain(time', startTime * Scale, endTime * Scale, dattempts', dmaxAttempts)
              THEN "loop" ELSE "clamp"
    /\ UNCHANGED <<startTime, endTime, dconfig, dmaxAttempts, dret>>
    /\ UNCHANGED <<intVars, urlVars, moreVars>>

\* clampedTime = Math.max(startTime, Math.min(endTime, time)); new Date(clampedTime)
GcdReturn ==
    /\ dpc = "clamp"
    /\ dret' = TimeClip(Clamp(startTime * Scale, endTime * Scale, time), Scale)
    /\ dpc' = "done"
    /\ UNCHANGED <<startTime, endTime, dconfig, dmaxAttempts, dattempts, time>>
    /\ UNCHANGED <<intVars, urlVars, moreVars>>

DateNext == GcdUniform \/ GcdDraw \/ GcdReturn

\* ---- validateDistribution ----------------------------------------------
\* The unclamped value of generateConstrainedInteger(min, max, config, 1): with
\* maxAttempts = 1 the do-while body runs once
singleAttemptValue(lo, hi, cfg, z) == MathRound(sampleOnce(lo, hi, cfg, z))

\* generateConstrainedInteger(min, max, config, 1) for a config that is not uniform
generateConstrainedIntegerOnce(lo, hi, cfg, z) == Clamp(lo, hi, singleAttemptValue(lo, hi, cfg, z))

\* value >= min && value <= max
inRange(v, lo, hi) == v >= lo /\ v <= hi

\* { valid, successRate }: successRate is held as the fraction num / den
ValidationResult(valid, num, den) == [valid |-> valid, num |-> num, den |-> den]

\* successRate >= 0.8
meetsConstraint(num, den) == 5 * num >= 4 * den

ValIdle ==
    /\ vconfig = [type |-> "uniform", center |-> 0, spread |-> 0, degreesOfFreedom |-> 0]
    /\ vmin = 0 /\ vmax = 0 /\ sampleSize = 0 /\ vi = 0
    /\ successCount = 0 /\ naturalCount = 0 /\ vpc = "idle"
    /\ vret = ValidationResult(FALSE, 0, 1)


ValInit ==
    /\ vconfig \in DistributionConfig
    /\ vmin \in (0 - MaxAbs) .. MaxAbs
    /\ vmax \in vmin .. MaxAbs
    /\ sampleSize \in 1 .. MaxSamples
    /\ vi = 0
    /\ successCount = 0
    /\ naturalCount = 0
    /\ vpc = "start"
    /\ vret = ValidationResult(FALSE, 0, 1)

\* if (config.type === 'uniform') return { valid: true, successRate: 1.0 }
ValUniform ==
    /\ vpc = "start"
    /\ vconfig.type = "uniform"
    /\ vret' = ValidationResult(TRUE, 1, 1)
    /\ vpc' = "done"
    /\ UNCHANGED <<vconfig, vmin, vmax, sampleSize, vi, successCount, naturalCount>>
    /\ UNCHANGED <<intVars, dateVars, urlVars, pairVars, pdfVars, uiVars>>

\* one pass of the for loop: a single-attempt sample and the test of its value
ValSample ==
    /\ vpc \in {"start", "loop"}
    /\ vconfig.type # "uniform"
    /\ vi < sampleSize
    /\ \E z \in NormalDraws :
          /\ successCount' =
                IF inRange(generateConstrainedIntegerOnce(vmin, vmax, vconfig, z), vmin, vmax)
                THEN successCount + 1 ELSE successCount
          /\ naturalCount' =
                IF inRange(singleAttemptValue(vmin, vmax, vconfig, z), vmin, vmax)
                THEN naturalCount + 1 ELSE naturalCount
    /\ vi' = vi + 1
    /\ vpc' = "loop"
    /\ UNCHANGED <<vconfig, vmin, vmax, sampleSize, vret>>
    /\ UNCHANGED <<intVars, dateVars, urlVars, pairVars, pdfVars, uiVars>>

\* successRate = successCount / sampleSize; valid: successRate >= 0.8
ValReturn ==
    /\ vpc = "loop"
    /\ vi >= sampleSize
    /\ vret' = ValidationResult(meetsConstraint(successCount, sampleSize),
                                successCount, sampleSize)
    /\ vpc' = "done"
    /\ UNCHANGED <<vconfig, vmin, vmax, sampleSize, vi, successCount, naturalCount>>
    /\ UNCHANGED <<intVars, dateVars, urlVars, pairVars, pdfVars, uiVars>>

ValNext == ValUniform \/ ValSample \/ ValReturn

\* ---- generateConstrainedInteger, called twice with one draw -------------
UniformConfigs == {cfg \in DistributionConfig : cfg.type = "uniform"}

uniformPathMutant(lo, hi, cfg, limit, k) ==
    Clamp(lo, hi, uniformDistribution(lo, hi, k) + cfg.center)
\* generateConstrainedInteger(min, max, config, maxAttempts) on its first
\* branch, if (config.type === 'uniform'), when Math.random() returns draw k
uniformPath(lo, hi, cfg, limit, k) == uniformDistribution(lo, hi, k)

PairIdle ==
    /\ pmin = 0 /\ pmax = 0 /\ pdraw = 0
    /\ pconfigA = [type |-> "uniform", center |-> 0, spread |-> 0, degreesOfFreedom |-> 0]
    /\ pconfigB = [type |-> "uniform", center |-> 0, spread |-> 0, degreesOfFreedom |-> 0]
    /\ plimitA = 0 /\ plimitB = 0 /\ pretA = 0 /\ pretB = 0 /\ ppc = "idle"


\* The draws of the model tell apart the integers of a range of up to
\* RandDen + 1 values
PairInit ==
    /\ pmin \in (0 - MaxAbs) .. MaxAbs
    /\ pmax \in pmin .. MathMin(MaxAbs, pmin + RandDen)
    /\ pdraw = 0
    /\ pconfigA \in UniformConfigs
    /\ pconfigB \in UniformConfigs
    /\ plimitA \in 1 .. MaxAttemptsBound
    /\ plimitB \in 1 .. MaxAttemptsBound
    /\ pretA = 0
    /\ pretB = 0
    /\ ppc = "start"

\* the first call draws Math.random()
PairFirstCall ==
    /\ ppc = "start"
    /\ pconfigA.type = "uniform"
    /\ \E k \in RandomDraws :
          /\ pdraw' = k
          /\ pretA' = uniformPath(pmin, pmax, pconfigA, plimitA, k)
    /\ ppc' = "first"
    /\ UNCHANGED <<pmin, pmax, pconfigA, pconfigB, plimitA, plimitB, pretB>>
    /\ UNCHANGED <<intVars, dateVars, urlVars, valVars, pdfVars, uiVars>>

\* the second call is given the same value of Math.random()
PairSecondCall ==
    /\ ppc = "first"
    /\ pconfigB.type = "uniform"
    /\ pretB' = uniformPath(pmin, pmax, pconfigB, plimitB, pdraw)
    /\ ppc' = "done"
    /\ UNCHANGED <<pmin, pmax, pdraw, pconfigA, pconfigB, plimitA, plimitB, pretA>>
    /\ UNCHANGED <<intVars, dateVars, urlVars, valVars, pdfVars, uiVars>>

PairNext == PairFirstCall \/ PairSecondCall

\* ------------------------------------------------------------------------
\* distributionPDF.ts: the curve of a uniform config. A height h is held as
\* the integer h * HeightDen, a position x = i / (pointCount - 1) as the
\* pair i, pointCount - 1, center and spread as percentages. The heights of
\* the bell, z-curve and t-curve formulas (Math.exp, Math.pow) have no exact
\* counterpart here and are left out.
\* ------------------------------------------------------------------------
PdfConfigs ==
    [type : {"uniform"},
     center : {0, PctDen \div 4, PctDen \div 2, 3 * (PctDen \div 4), PctDen},
     spread : {0, PctDen \div 2, PctDen},
     degreesOfFreedom : {0}]

\* lowerBound = Math.max(0, center - spread / 2), in units of 1 / (2 * PctDen)
lowerBound(center, spread) == MathMax(0, 2 * center - spread)

\* upperBound = Math.min(1, center + spread / 2), in units of 1 / (2 * PctDen)
upperBound(center, spread) == MathMin(2 * PctDen, 2 * center + spread)

\* calculateUniformPDF(x, center, spread) at x = num / den
calculateUniformPDF(num, den, center, spread) ==
    IF /\ 2 * PctDen * num >= den * lowerBound(center, spread)
       /\ 2 * PctDen * num <= den * upperBound(center, spread)
    THEN HeightDen ELSE 0

\* calculatePDF(type, x, center, spread, degreesOfFreedom) at x = num / den
calculatePDF(type, num, den, center, spread, degreesOfFreedom) ==
    CASE type = "uniform" -> calculateUniformPDF(num, den, center, spread)

RECURSIVE maxOf(_, _)
\* Math.max(...values, floor)
maxOf(values, floor) ==
    IF values = <<>> THEN floor ELSE maxOf(Tail(values), MathMax(Head(values), floor))

\* maxValue = Math.max(...data, 0.0001)
maxValueOf(values) == maxOf(values, 1)

\* data.map(v => v / maxValue); the quotients of a uniform curve are exact
normalised(values) ==
    [j \in 1 .. Len(values) |-> (values[j] * HeightDen) \div maxValueOf(values)]

PdfIdle ==
    /\ gconfig = [type |-> "uniform", center |-> 0, spread |-> 0, degreesOfFreedom |-> 0]
    /\ pointCount = 0 /\ gi = 0 /\ data = <<>> /\ curve = <<>> /\ gpc = "idle"
    /\ gstartTime = 0 /\ gendTime = 0 /\ gj = 0 /\ gdata = <<>> /\ gcurve = <<>>
    /\ gdpc = "idle"

\* let animationFrameId: number | null = null
NoFrame == 0

GraphIdle ==
    /\ propConfig = [type |-> "uniform", center |-> 0, spread |-> 0, degreesOfFreedom |-> 0]
    /\ canvas = FALSE /\ lastConfigString = <<>> /\ animationFrameId = NoFrame
    /\ frames = {} /\ frameCount = 0 /\ flush = "off"
    /\ drawnConfig = <<>> /\ changes = 0

\* getRandomActiveSearchTerm() returned null, or was not called
NoPick == [found |-> FALSE, pattern |-> <<>>, specifier |-> ""]

TermIdle ==
    /\ allSearchTerms = <<>> /\ selectedAge = "any" /\ selectedGenres = {}
    /\ selectedNames = {} /\ previousAvailable = {} /\ activeSearchTerms = <<>>
    /\ picked = NoPick

HistIdle ==
    /\ searchHistory = <<>> /\ enablePersistentHistory = FALSE
    /\ showDisableWarning = FALSE /\ cookies = {} /\ lastHandler = "idle"

\* selectedTermIndex = null
NoIndex == -1

PoolIdle ==
    /\ enableUserTerms = FALSE /\ customSearchTerms = <<>>
    /\ selectedTermIndex = NoIndex /\ poolHandler = "idle"

PageIdle == TermIdle /\ HistIdle /\ PoolIdle

UiIdle == GraphIdle /\ PageIdle

MoreIdle == ValIdle /\ PairIdle /\ PdfIdle /\ UiIdle

PdfInit ==
    /\ gconfig \in PdfConfigs
    /\ pointCount \in 2 .. MaxPoints
    /\ gi = 0
    /\ data = <<>>
    /\ curve = <<>>
    /\ gpc = "loop"
    /\ gstartTime \in (0 - MaxAbs) .. MaxAbs
    /\ gendTime \in gstartTime .. MaxAbs
    /\ gj = 0
    /\ gdata = <<>>
    /\ gcurve = <<>>
    /\ gdpc = "loop"

\* one pass of the for loop: x = i / (pointCount - 1); data.push(calculatePDF(...))
PdfPoint ==
    /\ gpc = "loop"
    /\ gi < pointCount
    /\ data' = Append(data, calculatePDF(gconfig.type, gi, pointCount - 1, gconfig.center,
                                          gconfig.spread, gconfig.degreesOfFreedom))
    /\ gi' = gi + 1
    /\ UNCHANGED <<gconfig, pointCount, curve, gpc>>
    /\ UNCHANGED <<gstartTime, gendTime, gj, gdata, gcurve, gdpc>>
    /\ UNCHANGED <<intVars, dateVars, urlVars, valVars, pairVars, uiVars>>

\* maxValue = Math.max(...data, 0.0001); return data.map(v => v / maxValue)
PdfNormalise ==
    /\ gpc = "loop"
    /\ gi >= pointCount
    /\ curve' = normalised(data)
    /\ gpc' = "done"
    /\ UNCHANGED <<gconfig, pointCount, gi, data>>
    /\ UNCHANGED <<gstartTime, gendTime, gj, gdata, gcurve, gdpc>>
    /\ UNCHANGED <<intVars, dateVars, urlVars, valVars, pairVars, uiVars>>

dateAtMutant(lo, hi, num, den) == TimeClip(lo * den + num * (hi - lo) + den, den)
\* new Date(startTime + x * range) at x = num / den
dateAt(lo, hi, num, den) == TimeClip(lo * den + num * (hi - lo), den)

\* data.map(d => ({date: d.date, pdf: d.pdf / maxPDF}))
normalisedPoints(points) ==
    [j \in 1 .. Len(points) |->
        [date |-> points[j].date,
         pdf |-> normalised([h \in 1 .. Len(points) |-> points[h].pdf])[j]]]

\* one pass of the for loop of generateDatePDFCurve
DatePdfPoint ==
    /\ gdpc = "loop"
    /\ gj < pointCount
    /\ gdata' = Append(gdata,
                       [date |-> dateAt(gstartTime, gendTime, gj, pointCount - 1),
                        pdf |-> calculatePDF(gconfig.type, gj, pointCount - 1, gconfig.center,
                                             gconfig.spread, gconfig.degreesOfFreedom)])
    /\ gj' = gj + 1
    /\ UNCHANGED <<gconfig, pointCount, gi, data, curve, gpc, gstartTime, gendTime, gcurve, gdpc>>
    /\ UNCHANGED <<intVars, dateVars, urlVars, valVars, pairVars, uiVars>>

\* maxPDF = Math.max(...data.map(d => d.pdf), 0.0001); return data.map(...)
DatePdfNormalise ==
    /\ gdpc = "loop"
    /\ gj >= pointCount
    /\ gcurve' = normalisedPoints(gdata)
    /\ gdpc' = "done"
    /\ UNCHANGED <<gconfig, pointCount, gi, data, curve, gpc, gstartTime, gendTime, gj, gdata>>
    /\ UNCHANGED <<intVars, dateVars, urlVars, valVars, pairVars, uiVars>>

PdfNext == PdfPoint \/ PdfNormalise \/ DatePdfPoint \/ DatePdfNormalise

\* ------------------------------------------------------------------------
\* JavaScript strings and numbers, as search-settings.ts uses them
\* ------------------------------------------------------------------------
\* The characters with codes 32 .. 126, in code order (code 96 by name)
Ascii ==
    <<" ", "!", "\"", "#", "$", "%", "&", "'", "(", ")", "*", "+", ",", "-", ".", "/">> \o
    <<"0", "1", "2", "3", "4", "5", "6", "7", "8", "9", ":", ";", "<", "=", ">", "?">> \o
    <<"@", "A", "B", "C", "D", "E", "F", "G", "H", "I", "J", "K", "L", "M", "N", "O">> \o
    <<"P", "Q", "R", "S", "T", "U", "V", "W", "X", "Y", "Z", "[", "\\", "]", "^", "_">> \o
    <<"<backtick>">> \o <<"a", "b", "c", "d", "e", "f", "g", "h", "i", "j", "k", "l", "m", "n", "o">> \o
    <<"p", "q", "r", "s", "t", "u", "v", "w", "x", "y", "z", "{", "|", "}", "~">>

\* A character outside the table
NonAscii == "<non-ascii>"

DigitChars == {Ascii[i - 31] : i \in 48 .. 57}
\* \w of a JavaScript regular expression
WordChars == {Ascii[i - 31] : i \in (48 .. 57) \cup (65 .. 90) \cup (97 .. 122) \cup {95}}
\* Characters the application/x-www-form-urlencoded serializer leaves as they are
UrlSafeChars == {Ascii[i - 31] : i \in (48 .. 57) \cup (65 .. 90) \cup (97 .. 122) \cup {42, 45, 46, 95}}

\* String.fromCharCode(n)
fromCharCode(n) == IF n \in 32 .. 126 THEN Ascii[n - 31] ELSE NonAscii

\* c.charCodeAt(0), for a character of the table
charCodeAt(c) == CHOOSE n \in 32 .. 126 : Ascii[n - 31] = c

HexDigits == <<"0", "1", "2", "3", "4", "5", "6", "7", "8", "9", "A", "B", "C", "D", "E", "F">>

RECURSIVE natToString(_, _)
natToString(n, radix) ==
    IF n < radix THEN <<HexDigits[n + 1]>>
    ELSE natToString(n \div radix, radix) \o <<HexDigits[(n % radix) + 1]>>

\* n.toString(), n.toString(16).toUpperCase()
toString(n, radix) ==
    IF n < 0 THEN <<"-">> \o natToString(0 - n, radix) ELSE natToString(n, radix)

\* s.padStart(n, ch)
padStart(s, n, ch) ==
    IF Len(s) >= n THEN s ELSE [i \in 1 .. (n - Len(s)) |-> ch] \o s

\* the token tok stands in s at position i
matchesAt(s, tok, i) ==
    /\ i + Len(tok) - 1 <= Len(s)
    /\ SubSeq(s, i, i + Len(tok) - 1) = tok

\* s.includes(tok), /tok/.test(s)
includes(s, tok) == \E i \in 1 .. Len(s) : matchesAt(s, tok, i)

RECURSIVE replaceAllFrom(_, _, _, _)
replaceAllFrom(s, tok, rep, i) ==
    IF i > Len(s) THEN <<>>
    ELSE IF matchesAt(s, tok, i) THEN rep \o replaceAllFrom(s, tok, rep, i + Len(tok))
    ELSE <<s[i]>> \o replaceAllFrom(s, tok, rep, i + 1)

\* s.replace(/tok/g, rep): every match, left to right, not rescanning rep
replaceAll(s, tok, rep) == replaceAllFrom(s, tok, rep, 1)

\* s.replace(tok, rep) with a string pattern: the first occurrence only
\* (rep never holds a $-pattern here: a lone "$" is literal)
replaceFirst(s, tok, rep) ==
    IF ~includes(s, tok) THEN s
    ELSE LET i == CHOOSE j \in 1 .. Len(s) :
                     matchesAt(s, tok, j) /\ \A h \in 1 .. (j - 1) : ~matchesAt(s, tok, h)
         IN SubSeq(s, 1, i - 1) \o rep \o SubSeq(s, i + Len(tok), Len(s))

\* length of the run of X that starts at position i
RECURSIVE runLength(_, _)
runLength(s, i) == IF i > Len(s) \/ s[i] # "X" THEN 0 ELSE 1 + runLength(s, i + 1)

RECURSIVE xMatchesFrom(_, _)
xMatchesFrom(s, i) ==
    IF i > Len(s) THEN <<>>
    ELSE IF s[i] = "X"
         THEN <<[j \in 1 .. runLength(s, i) |-> "X"]>> \o xMatchesFrom(s, i + runLength(s, i))
         ELSE xMatchesFrom(s, i + 1)

\* s.match(/X+/g): the maximal runs of X, left to right
xMatches(s) == xMatchesFrom(s, 1)

RECURSIVE splitFrom(_, _, _, _)
splitFrom(s, sep, i, cur) ==
    IF i > Len(s) THEN <<cur>>
    ELSE IF s[i] = sep THEN <<cur>> \o splitFrom(s, sep, i + 1, <<>>)
    ELSE splitFrom(s, sep, i + 1, Append(cur, s[i]))

\* s.split(sep) for a one-character separator
split(s, sep) == splitFrom(s, sep, 1, <<>>)

RECURSIVE skipSpaces(_)
skipSpaces(s) == IF s # <<>> /\ Head(s) = " " THEN skipSpaces(Tail(s)) ELSE s

RECURSIVE digitPrefixValue(_, _)
digitPrefixValue(s, acc) ==
    IF s = <<>> \/ Head(s) \notin DigitChars THEN acc
    ELSE digitPrefixValue(Tail(s), acc * 10 + (charCodeAt(Head(s)) - 48))

\* The sign and digits of parseInt, once the leading blanks are gone
parseSigned(t) ==
    IF t # <<>> /\ Head(t) = "-" THEN
        IF Len(t) < 2 \/ t[2] \notin DigitChars THEN [isNaN |-> TRUE, n |-> 0]
        ELSE [isNaN |-> FALSE, n |-> 0 - digitPrefixValue(Tail(t), 0)]
    ELSE IF t # <<>> /\ Head(t) = "+" THEN
        IF Len(t) < 2 \/ t[2] \notin DigitChars THEN [isNaN |-> TRUE, n |-> 0]
        ELSE [isNaN |-> FALSE, n |-> digitPrefixValue(Tail(t), 0)]
    ELSE IF t = <<>> \/ Head(t) \notin DigitChars THEN [isNaN |-> TRUE, n |-> 0]
    ELSE [isNaN |-> FALSE, n |-> digitPrefixValue(t, 0)]

\* parseInt(s, 10): leading blanks and one sign are skipped, then the longest
\* run of digits is read; NaN when there is none
parseInt(s) == parseSigned(skipSpaces(s))

RECURSIVE pow(_, _)
\* Math.pow(b, e)
pow(b, e) == IF e = 0 THEN 1 ELSE b * pow(b, e - 1)

\* if (isNaN(min) || isNaN(max)) return null; return { min, max }
rangeOrNull(lo, hi) ==
    IF lo.isNaN \/ hi.isNaN THEN [isNull |-> TRUE, min |-> 0, max |-> 0]
    ELSE [isNull |-> FALSE, min |-> lo.n, max |-> hi.n]

\* if (parts.length !== 2) return null; then parseInt of both parts
rangeOfParts(parts) ==
    IF Len(parts) # 2 THEN [isNull |-> TRUE, min |-> 0, max |-> 0]
    ELSE rangeOrNull(parseInt(parts[1]), parseInt(parts[2]))

\* parseRangeConstraint(value): null, or {min, max}
parseRangeConstraint(v) == rangeOfParts(split(v, "-"))

\* Math.floor(Math.random() * (max - min + 1)) + min
getRandomInt(lo, hi, k) == floorOfRandomTimes(k, hi - lo + 1) + lo

\* ------------------------------------------------------------------------
\* search-settings.ts
\* ------------------------------------------------------------------------
monthNames ==
    <<<<"J", "a", "n", "u", "a", "r", "y">>, <<"F", "e", "b", "r", "u", "a", "r", "y">>, <<"M", "a", "r", "c", "h">>, <<"A", "p", "r", "i", "l">>, <<"M", "a", "y">>, <<"J", "u", "n", "e">>,
      <<"J", "u", "l", "y">>, <<"A", "u", "g", "u", "s", "t">>, <<"S", "e", "p", "t", "e", "m", "b", "e", "r">>, <<"O", "c", "t", "o", "b", "e", "r">>, <<"N", "o", "v", "e", "m", "b", "e", "r">>, <<"D", "e", "c", "e", "m", "b", "e", "r">>>>

shortMonthNames ==
    <<<<"J", "a", "n">>, <<"F", "e", "b">>, <<"M", "a", "r">>, <<"A", "p", "r">>, <<"M", "a", "y">>, <<"J", "u", "n">>,
      <<"J", "u", "l">>, <<"A", "u", "g">>, <<"S", "e", "p">>, <<"O", "c", "t">>, <<"N", "o", "v">>, <<"D", "e", "c">>>>

\* An argument that was not passed (undefined)
Undefined == <<"<undefined>">>

\* the test (!specifier || specifier === "")
noSpecifier(spc) == spc = Undefined \/ spc = <<>>

\* What a call did: returned a string, or threw
Returned(s) == [threw |-> FALSE, value |-> s]
Threw == [threw |-> TRUE, value |-> <<>>]

\* "if (range) { min = range.min; max = range.max; constraintType = ... }"
applyRange(acc, range, type) ==
    IF range.isNull THEN acc
    ELSE [min |-> range.min, max |-> range.max, constraintType |-> type]

\* The body of "for (const constraint of pattern.constraints)" for one constraint
applyConstraint(acc, constraint) ==
    CASE constraint.type = "range" ->
            applyRange(acc, parseRangeConstraint(constraint.value), "number")
      [] constraint.type = "letter-range" ->
            applyRange(acc, parseRangeConstraint(constraint.value), "letter")
      [] constraint.type = "hex-range" ->
            applyRange(acc, parseRangeConstraint(constraint.value), "hex")
      [] OTHER -> acc

RECURSIVE applyConstraints(_, _, _)
applyConstraints(acc, constraints, i) ==
    IF i > Len(constraints) THEN acc
    ELSE applyConstraints(applyConstraint(acc, constraints[i]), constraints, i + 1)

rangeOfRunMutant(constraints, xCount) ==
    applyConstraints([min |-> 0, max |-> pow(10, xCount) - 1, constraintType |-> "number"],
                     SubSeq(constraints, 1, MathMin(1, Len(constraints))), 1)
\* min, max and constraintType of a run of xCount X
rangeOfRun(constraints, xCount) ==
    applyConstraints([min |-> 0, max |-> pow(10, xCount) - 1, constraintType |-> "number"],
                     constraints, 1)

\* The text generated for one run, before padding
replacementOf(rng, k) ==
    CASE rng.constraintType = "letter" -> <<fromCharCode(getRandomInt(rng.min, rng.max, k))>>
      [] rng.constraintType = "hex" -> toString(getRandomInt(rng.min, rng.max, k), 16)
      [] OTHER -> toString(getRandomInt(rng.min, rng.max, k), 10)

paddedReplacementMutant(constraints, xCount, k) ==
    replacementOf(rangeOfRun(constraints, xCount), k)
\* The text substituted for a run of xCount X: the value padded to xCount
paddedReplacement(constraints, xCount, k) ==
    padStart(replacementOf(rangeOfRun(constraints, xCount), k), xCount, "0")

RECURSIVE fillXGroups(_, _, _, _, _)
\* "for (const xGroup of xMatches)": ds[i] is the Math.random() of the i-th run
fillXGroups(result, constraints, groups, i, ds) ==
    IF i > Len(groups) THEN result
    ELSE fillXGroups(replaceFirst(result, groups[i],
                                  paddedReplacement(constraints, Len(groups[i]), ds[i])),
                     constraints, groups, i + 1, ds)

\* if (result.includes(tok)) result = result.replace(/tok/g, rep)
replaceToken(s, tok, rep) == IF includes(s, tok) THEN replaceAll(s, tok, rep) ELSE s

\* n.toString().padStart(width, '0')
padded(n, width) == padStart(toString(n, 10), width, "0")

\* The date and time placeholders, in the order the code replaces them:
\* YYYY, Month, Mon, MM, DD, HH, mm, SS
fillDateTokens(spc, d) ==
    replaceToken(
     replaceToken(
      replaceToken(
       replaceToken(
        replaceToken(
         replaceToken(
          replaceToken(
           replaceToken(spc, <<"Y", "Y", "Y", "Y">>, padded(d.year, 4)),
           <<"M", "o", "n", "t", "h">>, monthNames[d.month + 1]),
          <<"M", "o", "n">>, shortMonthNames[d.month + 1]),
         <<"M", "M">>, padded(d.month + 1, 2)),
        <<"D", "D">>, padded(d.date, 2)),
       <<"H", "H">>, padded(d.hours, 2)),
      <<"m", "m">>, padded(d.minutes, 2)),
     <<"S", "S">>, padded(d.seconds, 2))

\* The runs of X the filler will draw a value for
runsOf(spc, d) ==
    IF noSpecifier(spc) THEN <<>> ELSE xMatches(fillDateTokens(spc, d))

\* "if (result.includes('X'))": iterating over pattern.constraints throws a
\* TypeError when the pattern has no such field
fillRuns(result, pat, ds) ==
    IF ~includes(result, <<"X">>) THEN Returned(result)
    ELSE IF "constraints" \notin DOMAIN pat THEN Threw
    ELSE Returned(fillXGroups(result, pat.constraints, xMatches(result), 1, ds))

\* fillSpecifierTemplate(specifier, pattern, formattedDate)
fillSpecifierTemplate(spc, pat, d, ds) ==
    IF noSpecifier(spc) THEN Returned(<<>>)
    ELSE fillRuns(fillDateTokens(spc, d), pat, ds)

\* The sampler that draws the value of an X-run
samplerOfRuns == "getRandomInt"

nameWithSpecifierMutant(name, specifierValue) ==
    IF specifierValue.threw THEN Threw
    ELSE Returned(name \o <<" ">> \o specifierValue.value)
\* return specifierValue ? `${name}${specifierValue}` : name
nameWithSpecifier(name, specifierValue) ==
    IF specifierValue.threw THEN Threw
    ELSE IF specifierValue.value # <<>> THEN Returned(name \o specifierValue.value)
    ELSE Returned(name)

\* generateSearchTerm(name, specifier, pattern, formattedDate)
generateSearchTerm(name, spc, pat, d, ds) ==
    IF noSpecifier(spc) THEN Returned(name)
    ELSE nameWithSpecifier(name, fillSpecifierTemplate(spc, pat, d, ds))

\* /\b(\d{4})\b/ matches s at position i
yearRegexAt(s, i) ==
    /\ i + 3 <= Len(s)
    /\ \A j \in i .. (i + 3) : s[j] \in DigitChars
    /\ (i = 1 \/ s[i - 1] \notin WordChars)
    /\ (i + 3 = Len(s) \/ s[i + 4] \notin WordChars)

\* searchTerm.match(yearRegex): <<>> for null, else <<match[1]>>
yearRegexMatch(s) ==
    IF \E i \in 1 .. Len(s) : yearRegexAt(s, i)
    THEN LET i == CHOOSE j \in 1 .. Len(s) :
                     yearRegexAt(s, j) /\ \A h \in 1 .. (j - 1) : ~yearRegexAt(s, h)
         IN <<SubSeq(s, i, i + 3)>>
    ELSE <<>>

beforeFilterMutant(d) ==
    <<"b", "e", "f", "o", "r", "e", ":">> \o toString(d.year, 10) \o <<"-">>
        \o toString(d.month + 1, 10) \o <<"-">> \o toString(d.date, 10)
\* `before:${year}-${month}-${day}` with month and day padded to two digits
beforeFilter(d) ==
    <<"b", "e", "f", "o", "r", "e", ":">> \o toString(d.year, 10) \o <<"-">>
        \o padStart(toString(d.month + 1, 10), 2, "0") \o <<"-">>
        \o padStart(toString(d.date, 10), 2, "0")

\* pattern.age, undefined when the pattern has no such field
ageOf(pat) == IF "age" \in DOMAIN pat THEN pat.age ELSE "<undefined>"

\* `after:${year}-${month}-${day}` with month and day as plain numbers
afterFilter(year, d) ==
    <<"a", "f", "t", "e", "r", ":">> \o year \o <<"-">> \o toString(d.month + 1, 10) \o <<"-">> \o toString(d.date, 10)

\* The age rules of determineDateFilter (4b, 4c and the default)
ageFilter(pat, d) ==
    IF ageOf(pat) = "old" THEN beforeFilter(d)
    ELSE IF ageOf(pat) = "new" THEN <<>>
    ELSE <<>>

\* "if (hasYearPlaceholder) { ... if (match) return ... }", then the age rules
yearFilter(hasYearPlaceholder, match, pat, d) ==
    IF hasYearPlaceholder /\ match # <<>> THEN afterFilter(match[1], d)
    ELSE ageFilter(pat, d)

determineDateFilterMutant(spc, pat, d, searchTerm, ovr) ==
    IF spc # Undefined /\ includes(spc, <<"Y", "Y", "Y", "Y">>)
       /\ yearRegexMatch(searchTerm) # <<>>
    THEN afterFilter(yearRegexMatch(searchTerm)[1], d)
    ELSE IF ovr THEN beforeFilter(d)
    ELSE ageFilter(pat, d)
\* determineDateFilter(specifier, pattern, formattedDate, searchTerm, dateOverride)
determineDateFilter(spc, pat, d, searchTerm, ovr) ==
    IF ovr THEN beforeFilter(d)
    ELSE yearFilter(spc # Undefined /\ includes(spc, <<"Y", "Y", "Y", "Y">>), yearRegexMatch(searchTerm), pat, d)

\* One character under the application/x-www-form-urlencoded serializer
urlEncodeChar(c) ==
    IF c \in UrlSafeChars THEN <<c>>
    ELSE IF c = " " THEN <<"+">>
    ELSE IF c = NonAscii THEN <<"%", NonAscii>>
    ELSE <<"%">> \o padStart(toString(charCodeAt(c), 16), 2, "0")

RECURSIVE urlEncode(_)
urlEncode(s) == IF s = <<>> THEN <<>> ELSE urlEncodeChar(Head(s)) \o urlEncode(Tail(s))

paramsToStringMutant(fullSearchTerm) ==
    <<"s", "e", "a", "r", "c", "h", "_", "q", "u", "e", "r", "y", "=">> \o fullSearchTerm \o <<"&", "s", "p", "=", "C", "A", "I", "S", "A", "h", "A", "B">>
\* new URLSearchParams({search_query}), append('sp', 'CAISAhAB'), toString()
paramsToString(fullSearchTerm) ==
    <<"s", "e", "a", "r", "c", "h", "_", "q", "u", "e", "r", "y", "=">> \o urlEncode(fullSearchTerm) \o <<"&", "s", "p", "=", "C", "A", "I", "S", "A", "h", "A", "B">>

\* What formatSearchTermToURL computed: its locals and the string it returns
urlResult(searchTerm, dateFilter, fullSearchTerm, sampler) ==
    [threw |-> FALSE, searchTerm |-> searchTerm, dateFilter |-> dateFilter,
     fullSearchTerm |-> fullSearchTerm,
     url |-> <<"h", "t", "t", "p", "s", ":", "/", "/", "w", "w", "w", ".", "y", "o", "u", "t", "u", "b", "e", ".", "c", "o", "m", "/", "r", "e", "s", "u", "l", "t", "s", "?">> \o paramsToString(fullSearchTerm),
     sampler |-> sampler]

withDateFilterMutant(searchTerm, dateFilter, sampler) ==
    urlResult(searchTerm, dateFilter, searchTerm \o <<" ">> \o dateFilter, sampler)
\* fullSearchTerm = dateFilter ? `${searchTerm} ${dateFilter}` : searchTerm
withDateFilter(searchTerm, dateFilter, sampler) ==
    urlResult(searchTerm, dateFilter,
              IF dateFilter # <<>> THEN searchTerm \o <<" ">> \o dateFilter ELSE searchTerm,
              sampler)

\* Step 2 of formatSearchTermToURL, on the quoted search term
withQuotedTerm(searchTerm, pat, spc, d, ovr, sampler) ==
    withDateFilter(searchTerm, determineDateFilter(spc, pat, d, searchTerm, ovr), sampler)

UrlThrew ==
    [threw |-> TRUE, searchTerm |-> <<>>, dateFilter |-> <<>>, fullSearchTerm |-> <<>>,
     url |-> <<>>, sampler |-> "none"]

\* Step 1.5 of formatSearchTermToURL: searchTerm = `"${searchTerm}"`
withTerm(term, pat, spc, d, ovr, sampler) ==
    IF term.threw THEN UrlThrew
    ELSE withQuotedTerm(<<"\"">> \o term.value \o <<"\"">>, pat, spc, d, ovr, sampler)

\* formatSearchTermToURL(pattern, specifier, formattedDate, dateOverride): the
\* function has four parameters, so a fifth argument of a call is dropped
formatSearchTermToURL(pat, spc, d, ovr, ds) ==
    withTerm(generateSearchTerm(pat.name, spc, pat, d, ds), pat, spc, d, ovr,
             IF runsOf(spc, d) # <<>> THEN samplerOfRuns ELSE "none")

\* ------------------------------------------------------------------------
\* Inputs of the filler and the formatter
\* ------------------------------------------------------------------------
\* formattedDate: getFullYear, getMonth (0-based), getDate, getHours, getMinutes, getSeconds
Dates ==
    {[year |-> 2024, month |-> 2, date |-> 15, hours |-> 14, minutes |-> 30, seconds |-> 59],
     [year |-> 2024, month |-> 5, date |-> 1, hours |-> 0, minutes |-> 0, seconds |-> 0],
     [year |-> 2009, month |-> 11, date |-> 31, hours |-> 23, minutes |-> 5, seconds |-> 9]}

Names == {<<>>, <<"a", " ">>, <<"a", "_">>, <<"1", "9", "9", "9", " ">>, <<"&", "=", "+", "%", "\"">>}
Ages == {"", "new", "old"}

Constraint(type, v) == [type |-> type, value |-> v]

ConstraintLists ==
    {<<>>,
     <<Constraint("range", <<"1", "-", "1", "2">>)>>,
     <<Constraint("letter-range", <<"6", "5", "-", "9", "0">>)>>,
     <<Constraint("letter-range", <<"8", "8", "-", "8", "8">>)>>,
     <<Constraint("hex-range", <<"1", "0", "-", "2", "5", "5">>)>>,
     <<Constraint("range", <<"1", "-", "1", "2">>), Constraint("letter-range", <<"6", "5", "-", "9", "0">>)>>,
     <<Constraint("letter-range", <<"6", "5", "-", "9", "0">>), Constraint("range", <<"a", "b", "c">>)>>,
     <<Constraint("range", <<"1", "-", "2", "-", "3">>)>>,
     <<Constraint("range", <<"7", "-", "3">>)>>,
     <<Constraint("letter-range", <<"8", "8", "-", "8", "9">>)>>,
     <<Constraint("letter-range", <<"6", "5", "-", "9", "0">>), Constraint("hex-range", <<"1", "0", "-", "2", "5", "5">>)>>,
     <<Constraint("hex-range", <<"1", "0", "-", "2", "5", "5">>), Constraint("range", <<"1", "-", "1", "2">>)>>}

\* Catalog patterns, patterns that lack the age field, and custom terms as
\* developSearchTerm builds them: with a "constraint" pair and no "constraints"
FilterPatterns ==
    {[name |-> n, age |-> a, constraints |-> <<>>] : n \in Names, a \in Ages}
    \cup {[name |-> n, constraints |-> <<>>] : n \in Names}
    \cup {[name |-> n, age |-> a, constraint |-> <<"", "">>, isCustom |-> TRUE] :
            n \in Names, a \in Ages}

FillPatterns == {[name |-> <<>>, age |-> "new", constraints |-> c] : c \in ConstraintLists}

FilterSpecifiers ==
    {<<>>, Undefined, <<"Y", "Y", "Y", "Y">>, <<"Y", "Y", "Y", "Y", " ", "M", "M", " ", "D", "D">>, <<"Y", "Y", "Y", "Y", "M", "M", "D", "D">>, <<"M", "o", "n", "t", "h", " ", "D", "D", " ", "Y", "Y", "Y", "Y">>,
     <<"M", "o", "n", " ", "D", "D">>, <<"M", "M", "o", "n", "t", "h">>, <<"D", "M", "o", "n">>, <<"H", "H", "M", "M", "S", "S">>, <<"H", "H", ":", "m", "m", ":", "S", "S">>, <<"X", "X", "X", "X">>, <<"v", "=", "X">>}

Xs(n) == [i \in 1 .. n |-> "X"]

RECURSIVE joinRuns(_)
joinRuns(lens) ==
    IF Len(lens) = 1 THEN Xs(lens[1])
    ELSE Xs(Head(lens)) \o <<" ">> \o joinRuns(Tail(lens))

\* Templates of 1 .. MaxRuns runs of 1 .. MaxRunLen X each, separated by a blank
XRunTemplates ==
    {joinRuns(lens) : lens \in UNION {[1 .. m -> 1 .. MaxRunLen] : m \in 1 .. MaxRuns}}

\* optionalIntegerDistributionConfig of handleFindVideos: <<>> when undefined
IntegerConfigs ==
    {<<>>, <<[type |-> "bell", center |-> PctDen \div 2, spread |-> PctDen \div 4,
              degreesOfFreedom |-> 0]>>}

UrlInputs ==
    [pattern : FilterPatterns, specifier : FilterSpecifiers, formattedDate : Dates,
     dateOverride : BOOLEAN, integerConfig : IntegerConfigs]
    \cup
    [pattern : FillPatterns, specifier : XRunTemplates,
     formattedDate : {[year |-> 2024, month |-> 2, date |-> 15,
                       hours |-> 14, minutes |-> 30, seconds |-> 59]},
     dateOverride : {FALSE}, integerConfig : {<<>>}]

\* no entry was added to searchHistory
NoEntry == [name |-> <<>>, specifier |-> <<>>, url |-> <<>>]

NoResult ==
    [threw |-> FALSE, searchTerm |-> <<>>, dateFilter |-> <<>>, fullSearchTerm |-> <<>>,
     url |-> <<>>, sampler |-> "none"]

UrlInit ==
    /\ \E in \in UrlInputs :
          /\ pattern = in.pattern
          /\ specifier = in.specifier
          /\ formattedDate = in.formattedDate
          /\ dateOverride = in.dateOverride
          /\ integerConfig = in.integerConfig
    /\ upc = "start"
    /\ draws = <<>>
    /\ filled = Returned(<<>>)
    /\ out = NoResult
    /\ historyDraws = <<>>
    /\ entry = NoEntry

UrlIdle ==
    /\ pattern = [name |-> <<>>, age |-> "", constraints |-> <<>>]
    /\ specifier = <<>>
    /\ formattedDate = [year |-> 2024, month |-> 2, date |-> 15,
                        hours |-> 14, minutes |-> 30, seconds |-> 59]
    /\ dateOverride = FALSE
    /\ integerConfig = <<>>
    /\ upc = "idle"
    /\ draws = <<>>
    /\ filled = Returned(<<>>)
    /\ out = NoResult
    /\ historyDraws = <<>>
    /\ entry = NoEntry

\* One Math.random() per X-run of the template
DrawsFor(spc, d) == [1 .. Len(runsOf(spc, d)) -> RandomDraws]

\* formatSearchTermToURL(pattern, specifier, formattedDate, enableDateOverride, integerConfig)
FormatSearchTermToURL ==
    /\ upc = "start"
    /\ \E ds \in DrawsFor(specifier, formattedDate) :
          /\ draws' = ds
          /\ out' = formatSearchTermToURL(pattern, specifier, formattedDate, dateOverride, ds)
    /\ upc' = "formatted"
    /\ UNCHANGED <<pattern, specifier, formattedDate, dateOverride, integerConfig, filled>>
    /\ UNCHANGED <<historyDraws, entry>>
    /\ UNCHANGED <<intVars, dateVars, moreVars>>

\* fillSpecifierTemplate(specifier, pattern, formattedDate)
FillSpecifierTemplate ==
    /\ upc = "start"
    /\ \E ds \in DrawsFor(specifier, formattedDate) :
          /\ draws' = ds
          /\ filled' = fillSpecifierTemplate(specifier, pattern, formattedDate, ds)
    /\ upc' = "filled"
    /\ UNCHANGED <<pattern, specifier, formattedDate, dateOverride, integerConfig, out>>
    /\ UNCHANGED <<historyDraws, entry>>
    /\ UNCHANGED <<intVars, dateVars, moreVars>>

\* searchHistory = [{name, specifier: filledSpecifier, url: formattedURL, ...}, ...]
historyEntry(pat, filledSpecifier, formattedURL) ==
    [name |-> pat.name, specifier |-> filledSpecifier, url |-> formattedURL]

\* handleFindVideos(), from the pattern, specifier and date it has chosen on: it
\* calls formatSearchTermToURL, then fillSpecifierTemplate, which draws again,
\* and adds the entry. The pattern is one of the pool. A call that throws ends
\* the handler.
HandleFindVideos ==
    /\ upc = "start"
    /\ pattern \in FilterPatterns
    /\ \E ds \in DrawsFor(specifier, formattedDate), hs \in DrawsFor(specifier, formattedDate) :
          /\ draws' = ds
          /\ historyDraws' = hs
          /\ out' = formatSearchTermToURL(pattern, specifier, formattedDate, dateOverride, ds)
          /\ filled' = IF out'.threw THEN filled
                       ELSE fillSpecifierTemplate(specifier, pattern, formattedDate, hs)
          /\ entry' = IF out'.threw \/ filled'.threw THEN entry
                      ELSE historyEntry(pattern, filled'.value, out'.url)
          /\ upc' = IF out'.threw \/ filled'.threw THEN "threw" ELSE "found"
    /\ UNCHANGED <<pattern, specifier, formattedDate, dateOverride, integerConfig>>
    /\ UNCHANGED <<intVars, dateVars, moreVars>>

UrlNext == FormatSearchTermToURL \/ FillSpecifierTemplate \/ HandleFindVideos

\* ------------------------------------------------------------------------
\* components/DistributionGraph.svelte: the scheduling of redraws. Svelte
\* runs the reactive statement and then the afterUpdate callback in the
\* update it schedules as a microtask when a prop or a bound element
\* changes; the browser runs animation frame callbacks between tasks, so
\* never inside an update that is due.
\* ------------------------------------------------------------------------
GraphConfigs ==
    {c \in DistributionConfig :
        c.type \in {"uniform", "bell"} /\ c.spread = PctDen \div 2 /\ c.degreesOfFreedom = 0}

\* JSON.stringify(config): the fields in the order the page writes them; an
\* undefined degreesOfFreedom is left out
JSONstringify(cfg) ==
    <<"type", cfg.type, "center", cfg.center, "spread", cfg.spread>>
        \o (IF cfg.degreesOfFreedom = 0 THEN <<>> ELSE <<"degreesOfFreedom", cfg.degreesOfFreedom>>)

\* The component's scheduling state
Schedule(last, id, pending, count) ==
    [lastConfigString |-> last, animationFrameId |-> id, frames |-> pending, frameCount |-> count]

\* cancelAnimationFrame(id)
cancelAnimationFrame(pending, id) == pending \ {id}

cancelPendingMutant(pending, id) == pending
\* if (animationFrameId !== null) cancelAnimationFrame(animationFrameId)
cancelPending(pending, id) ==
    IF id # NoFrame THEN cancelAnimationFrame(pending, id) ELSE pending

requestRedrawMutant(st) ==
    IF st.animationFrameId # NoFrame
    THEN Schedule(st.lastConfigString, NoFrame,
                  cancelPending(st.frames, st.animationFrameId), st.frameCount)
    ELSE Schedule(st.lastConfigString, st.frameCount + 1,
                  st.frames \cup {st.frameCount + 1}, st.frameCount + 1)
\* the part of scheduleRedraw after the change test: cancel the pending frame,
\* then animationFrameId = requestAnimationFrame(...)
requestRedraw(st) ==
    Schedule(st.lastConfigString, st.frameCount + 1,
             cancelPending(st.frames, st.animationFrameId) \cup {st.frameCount + 1},
             st.frameCount + 1)

\* scheduleRedraw()
scheduleRedraw(cfg, st) ==
    IF JSONstringify(cfg) = st.lastConfigString THEN st
    ELSE requestRedraw([st EXCEPT !.lastConfigString = JSONstringify(cfg)])

ScheduleNow == Schedule(lastConfigString, animationFrameId, frames, frameCount)

\* the component's state becomes st
Scheduled(st) ==
    /\ lastConfigString' = st.lastConfigString
    /\ animationFrameId' = st.animationFrameId
    /\ frames' = st.frames
    /\ frameCount' = st.frameCount

\* drawGraph(): "if (!canvas) return", else the canvas shows the current config
drawGraph(hasCanvas, cfg, shown) == IF hasCanvas THEN JSONstringify(cfg) ELSE shown

GraphInit ==
    /\ propConfig \in GraphConfigs
    /\ canvas = FALSE
    /\ lastConfigString = <<>>
    /\ animationFrameId = NoFrame
    /\ frames = {}
    /\ frameCount = 0
    /\ flush = "off"
    /\ drawnConfig = <<>>
    /\ changes = 0

\* The component is mounted: bind:this sets canvas, which makes an update due,
\* and onMount draws
Mount ==
    /\ flush = "off"
    /\ ~canvas
    /\ canvas' = TRUE
    /\ drawnConfig' = drawGraph(TRUE, propConfig, drawnConfig)
    /\ flush' = "reactive"
    /\ UNCHANGED <<propConfig, lastConfigString, animationFrameId, frames, frameCount, changes>>
    /\ UNCHANGED <<libVars, pageVars>>

\* The parent assigns another config to the prop: an update is due
ConfigChange ==
    /\ flush \in {"off", "reactive"}
    /\ changes < MaxChanges
    /\ \E c \in GraphConfigs \ {propConfig} : propConfig' = c
    /\ changes' = changes + 1
    /\ flush' = "reactive"
    /\ UNCHANGED <<canvas, lastConfigString, animationFrameId, frames, frameCount, drawnConfig>>
    /\ UNCHANGED <<libVars, pageVars>>

\* $: if (canvas && config) { scheduleRedraw(); }
ReactiveStatement ==
    /\ flush = "reactive"
    /\ Scheduled(IF canvas THEN scheduleRedraw(propConfig, ScheduleNow) ELSE ScheduleNow)
    /\ flush' = "afterUpdate"
    /\ UNCHANGED <<propConfig, canvas, drawnConfig, changes>>
    /\ UNCHANGED <<libVars, pageVars>>

\* afterUpdate(() => { if (canvas) { scheduleRedraw(); } })
AfterUpdate ==
    /\ flush = "afterUpdate"
    /\ Scheduled(IF canvas THEN scheduleRedraw(propConfig, ScheduleNow) ELSE ScheduleNow)
    /\ flush' = "off"
    /\ UNCHANGED <<propConfig, canvas, drawnConfig, changes>>
    /\ UNCHANGED <<libVars, pageVars>>

\* The browser runs a requested frame: () => { drawGraph(); animationFrameId = null; }
FrameFires ==
    /\ flush = "off"
    /\ \E f \in frames : frames' = frames \ {f}
    /\ drawnConfig' = drawGraph(canvas, propConfig, drawnConfig)
    /\ animationFrameId' = NoFrame
    /\ UNCHANGED <<propConfig, canvas, lastConfigString, frameCount, flush, changes>>
    /\ UNCHANGED <<libVars, pageVars>>

\* The ResizeObserver callback: drawGraph()
Resize ==
    /\ flush = "off"
    /\ canvas
    /\ drawnConfig' = drawGraph(canvas, propConfig, drawnConfig)
    /\ UNCHANGED <<propConfig, canvas, lastConfigString, animationFrameId, frames, frameCount,
                   flush, changes>>
    /\ UNCHANGED <<libVars, pageVars>>

GraphNext ==
    Mount \/ ConfigChange \/ ReactiveStatement \/ AfterUpdate \/ FrameFires \/ Resize

\* ------------------------------------------------------------------------
\* routes/+page.svelte: the filters of the page and the terms they leave.
\* A handler is modelled with the reactive statements its assignments make
\* run: availableNames, the update of selectedNames, activeSearchTerms.
\* ------------------------------------------------------------------------
SearchPattern(name, age, genre, specifiers, isCustom) ==
    [name |-> name, age |-> age, genre |-> genre, specifiers |-> specifiers,
     isCustom |-> isCustom]

\* A catalog as loadAllSearchTerms() returns one: a pattern of no age, one with
\* two specifiers, one of the genre that starts deselected
builtInTerms ==
    <<SearchPattern("IMG", "", "Camera", <<"XXXX">>, FALSE),
      SearchPattern("DSC", "new", "Camera", <<"XXXX", "YYYY MM DD">>, FALSE),
      SearchPattern("MVI", "old", "Phone", <<"XXXX">>, FALSE),
      SearchPattern("VID", "old", "NSFW", <<"X">>, FALSE)>>

AgeChoices == {"any", "new", "old"}

\* the key  name|||specifier  of one combination, held in its three parts
displayKey(name, spc) == <<name, "|||", spc>>

\* allGenres: the genres of the terms, without the empty one
allGenresOf(terms) == {terms[i].genre : i \in 1 .. Len(terms)} \ {""}

\* the displayKeys of availableNames: the combinations of the terms whose
\* genre is selected
availableKeys(terms, genres) ==
    UNION {{displayKey(terms[i].name, terms[i].specifiers[j]) :
              j \in 1 .. Len(terms[i].specifiers)} :
           i \in {h \in 1 .. Len(terms) : terms[h].genre \in genres}}

\* the reactive update of selectedNames when availableNames changes
syncSelectedNames(selected, previous, current) ==
    (selected \cap current) \cup (current \ previous)

\* pattern.specifiers.some(specifier => selectedNames.has(key))
hasMatchingSpecifier(pat, selected) ==
    \E j \in 1 .. Len(pat.specifiers) : displayKey(pat.name, pat.specifiers[j]) \in selected

\* the callback of allSearchTerms.filter(...)
isActive(pat, age, selected) ==
    IF age # "any" /\ pat.age # "" /\ pat.age # age THEN FALSE
    ELSE IF age # "any" /\ pat.age = "" THEN TRUE
    ELSE IF selected # {} /\ ~hasMatchingSpecifier(pat, selected) THEN FALSE
    ELSE TRUE

\* activeSearchTerms = allSearchTerms.filter(...)
activeOf(terms, age, selected) ==
    SelectSeq(terms, LAMBDA pat : isActive(pat, age, selected))

\* randomPattern.specifiers.filter(spec => selectedNames.has(key))
validSpecifiers(pat, selected) ==
    SelectSeq(pat.specifiers, LAMBDA spc : displayKey(pat.name, spc) \in selected)

\* the specifier getRandomActiveSearchTerm picks for the pattern
specifierOf(pat, selected, k) ==
    IF Len(validSpecifiers(pat, selected)) > 0
    THEN validSpecifiers(pat, selected)[floorOfRandomTimes(k, Len(validSpecifiers(pat, selected))) + 1]
    ELSE pat.specifiers[1]

\* getRandomActiveSearchTerm(), k1 and k2 its two values of Math.random()
getRandomActiveSearchTerm(active, selected, k1, k2) ==
    IF Len(active) = 0 THEN NoPick
    ELSE [found |-> TRUE,
          pattern |-> active[floorOfRandomTimes(k1, Len(active)) + 1],
          specifier |-> specifierOf(active[floorOfRandomTimes(k1, Len(active)) + 1], selected, k2)]

\* The page once loaded: every genre but NSFW is selected, and every
\* available combination
TermInit ==
    /\ allSearchTerms = builtInTerms
    /\ selectedAge = "any"
    /\ selectedGenres = allGenresOf(builtInTerms) \ {"NSFW"}
    /\ selectedNames = availableKeys(builtInTerms, selectedGenres)
    /\ previousAvailable = selectedNames
    /\ activeSearchTerms = activeOf(builtInTerms, selectedAge, selectedNames)
    /\ picked = NoPick

\* the genres become genres: availableNames, selectedNames and
\* activeSearchTerms follow
GenresBecome(genres) ==
    /\ selectedGenres' = genres
    /\ previousAvailable' = availableKeys(allSearchTerms, genres)
    /\ selectedNames' = syncSelectedNames(selectedNames, previousAvailable,
                                          availableKeys(allSearchTerms, genres))
    /\ activeSearchTerms' = activeOf(allSearchTerms, selectedAge, selectedNames')
    /\ UNCHANGED <<allSearchTerms, selectedAge, picked>>

\* the selected names become names: activeSearchTerms follows
NamesBecome(names) ==
    /\ selectedNames' = names
    /\ activeSearchTerms' = activeOf(allSearchTerms, selectedAge, names)
    /\ UNCHANGED <<allSearchTerms, selectedAge, selectedGenres, previousAvailable, picked>>

\* handleAgeChange(event)
HandleAgeChange ==
    /\ \E age \in AgeChoices :
          /\ selectedAge' = age
          /\ activeSearchTerms' = activeOf(allSearchTerms, age, selectedNames)
    /\ UNCHANGED <<allSearchTerms, selectedGenres, selectedNames, previousAvailable, picked>>
    /\ UNCHANGED <<libVars, graphVars, histVars, poolVars>>

\* toggleGenre(genre)
ToggleGenre ==
    /\ \E genre \in allGenresOf(allSearchTerms) :
          GenresBecome(IF genre \in selectedGenres THEN selectedGenres \ {genre}
                       ELSE selectedGenres \cup {genre})
    /\ UNCHANGED <<libVars, graphVars, histVars, poolVars>>

\* toggleSelectAll()
ToggleSelectAll ==
    /\ GenresBecome(IF Cardinality(selectedGenres) = Cardinality(allGenresOf(allSearchTerms))
                    THEN {} ELSE allGenresOf(allSearchTerms))
    /\ UNCHANGED <<libVars, graphVars, histVars, poolVars>>

\* toggleName(displayKey), for an item of the list of available names
ToggleName ==
    /\ \E key \in availableKeys(allSearchTerms, selectedGenres) :
          NamesBecome(IF key \in selectedNames THEN selectedNames \ {key}
                      ELSE selectedNames \cup {key})
    /\ UNCHANGED <<libVars, graphVars, histVars, poolVars>>

\* toggleSelectAllNames()
ToggleSelectAllNames ==
    /\ NamesBecome(IF Cardinality(selectedNames)
                        = Cardinality(availableKeys(allSearchTerms, selectedGenres))
                   THEN {} ELSE availableKeys(allSearchTerms, selectedGenres))
    /\ UNCHANGED <<libVars, graphVars, histVars, poolVars>>

\* Find Videos: getRandomActiveSearchTerm()
GetRandomActiveSearchTerm ==
    /\ \E k1, k2 \in RandomDraws :
          picked' = getRandomActiveSearchTerm(activeSearchTerms, selectedNames, k1, k2)
    /\ UNCHANGED <<allSearchTerms, selectedAge, selectedGenres, selectedNames,
                   previousAvailable, activeSearchTerms>>
    /\ UNCHANGED <<libVars, graphVars, histVars, poolVars>>

TermNext ==
    \/ HandleAgeChange \/ ToggleGenre \/ ToggleSelectAll \/ ToggleName
    \/ ToggleSelectAllNames \/ GetRandomActiveSearchTerm

\* ------------------------------------------------------------------------
\* routes/+page.svelte: the search history and its cookies. document.cookie
\* is the set of the pairs name, value that are stored; the value of the
\* searchHistory cookie is the serialised history. A handler is modelled
\* with the reactive statement that saves the history after it.
\* ------------------------------------------------------------------------
\* The entries handleFindVideos can add
HistoryEntries == {"IMG 1234", "DSC 2024 03 15", "MVI 0042"}

setCookie(jar, name, v) == {c \in jar : c[1] # name} \cup {<<name, v>>}

\* getCookie(name) !== null
hasCookie(jar, name) == \E c \in jar : c[1] = name

deleteCookieMutant(jar, name) == jar
\* deleteCookie(name): the cookie is stored again as expired
deleteCookie(jar, name) == {c \in jar : c[1] # name}

\* encodeURIComponent(JSON.stringify(searchHistory))
historyJSON(history) == <<"encoded", history>>

\* $: if (enablePersistentHistory && searchHistory.length > 0) setCookie('searchHistory', ...)
saveHistory(jar, enabled, history) ==
    IF enabled /\ Len(history) > 0 THEN setCookie(jar, "searchHistory", historyJSON(history))
    ELSE jar

\* The page once mounted with no cookies
HistInit ==
    /\ searchHistory = <<>>
    /\ enablePersistentHistory = FALSE
    /\ showDisableWarning = FALSE
    /\ cookies = {}
    /\ lastHandler = "onMount"

\* handleFindVideos(): searchHistory = [entry, ...searchHistory]
AddToHistory ==
    /\ Len(searchHistory) < MaxHistory
    /\ \E e \in HistoryEntries : searchHistory' = <<e>> \o searchHistory
    /\ cookies' = saveHistory(cookies, enablePersistentHistory, searchHistory')
    /\ lastHandler' = "handleFindVideos"
    /\ UNCHANGED <<enablePersistentHistory, showDisableWarning>>
    /\ UNCHANGED <<libVars, graphVars, termVars, poolVars>>

\* clearSearchHistory()
ClearSearchHistory ==
    /\ searchHistory' = <<>>
    /\ cookies' = saveHistory(deleteCookie(cookies, "searchHistory"),
                              enablePersistentHistory, searchHistory')
    /\ lastHandler' = "clearSearchHistory"
    /\ UNCHANGED <<enablePersistentHistory, showDisableWarning>>
    /\ UNCHANGED <<libVars, graphVars, termVars, poolVars>>

\* togglePersistentHistory(event), newValue = event.target.checked
TogglePersistentHistory ==
    /\ \E newValue \in BOOLEAN :
          IF ~newValue /\ enablePersistentHistory
          THEN /\ showDisableWarning' = TRUE
               /\ UNCHANGED <<enablePersistentHistory, cookies>>
          ELSE IF newValue /\ ~enablePersistentHistory
          THEN /\ enablePersistentHistory' = TRUE
               /\ cookies' = saveHistory(setCookie(cookies, "enablePersistentHistory", "true"),
                                         TRUE, searchHistory)
               /\ UNCHANGED showDisableWarning
          ELSE UNCHANGED <<enablePersistentHistory, cookies, showDisableWarning>>
    /\ lastHandler' = "togglePersistentHistory"
    /\ UNCHANGED searchHistory
    /\ UNCHANGED <<libVars, graphVars, termVars, poolVars>>

\* confirmDisablePersistentHistory(), a button of the warning
ConfirmDisablePersistentHistory ==
    /\ showDisableWarning
    /\ enablePersistentHistory' = FALSE
    /\ searchHistory' = <<>>
    /\ cookies' = saveHistory(deleteCookie(deleteCookie(cookies, "searchHistory"),
                                           "enablePersistentHistory"),
                              FALSE, searchHistory')
    /\ showDisableWarning' = FALSE
    /\ lastHandler' = "confirmDisablePersistentHistory"
    /\ UNCHANGED <<libVars, graphVars, termVars, poolVars>>

\* cancelDisablePersistentHistory(), a button of the warning
CancelDisablePersistentHistory ==
    /\ showDisableWarning
    /\ showDisableWarning' = FALSE
    /\ lastHandler' = "cancelDisablePersistentHistory"
    /\ UNCHANGED <<searchHistory, enablePersistentHistory, cookies>>
    /\ UNCHANGED <<libVars, graphVars, termVars, poolVars>>

HistNext ==
    \/ AddToHistory \/ ClearSearchHistory \/ TogglePersistentHistory
    \/ ConfirmDisablePersistentHistory \/ CancelDisablePersistentHistory

\* ------------------------------------------------------------------------
\* routes/+page.svelte: the custom terms. The handlers read and write the
\* item customSearchTerms of localStorage whole; a handler is modelled with
\* the reactive statements that an assignment of allSearchTerms makes run.
\* ------------------------------------------------------------------------
\* constraint = ['', '']
NoConstraint == <<"", "">>

developSearchTerm(name, specifiers, genre, age, constraint) ==
    [name |-> name, genre |-> genre, age |-> age, specifiers |-> specifiers,
     constraint |-> constraint, isCustom |-> TRUE]

\* String.prototype.trim, for the texts of the forms and files below: one of
\* them has white space only when it is nothing but one space
trim(text) == IF text = " " THEN "" ELSE text

\* x || y, for two strings
orElse(x, y) == IF x # "" THEN x ELSE y

\* customSpecifiersList.map(s => s.trim()).filter(s => s.length > 0)
specifiersArrayOf(list) ==
    SelectSeq([i \in 1 .. Len(list) |-> trim(list[i])], LAMBDA spc : spc # "")

\* saveSearchTerm: nothing to save, neither a name nor a specifier
nothingEntered(name, list) == trim(name) = "" /\ Len(specifiersArrayOf(list)) = 0

\* saveSearchTerm: the term built from the fields of the form, no constraint
\* chosen
termOfForm(name, list, genre, age) ==
    developSearchTerm(trim(name),
                      IF Len(specifiersArrayOf(list)) > 0 THEN specifiersArrayOf(list)
                      ELSE <<"">>,
                      orElse(genre, "Custom"), age, NoConstraint)

\* allSearchTerms.filter(term => !term.isCustom)
removeCustomTermsFromPool(terms) == SelectSeq(terms, LAMBDA term : ~term.isCustom)

loadCustomTermsIntoPoolMutant(terms, customTerms) == terms \o customTerms

\* loadCustomTermsIntoPool(), of the pool and the list read from localStorage
loadCustomTermsIntoPool(terms, customTerms) ==
    IF Len(customTerms) > 0 THEN removeCustomTermsFromPool(terms) \o customTerms
    ELSE removeCustomTermsFromPool(terms)

\* customTerms.splice(index, 1), index counted from 0
splice(customTerms, index) ==
    SubSeq(customTerms, 1, index) \o SubSeq(customTerms, index + 2, Len(customTerms))

validateSearchPattern(term) ==
    \/ trim(term.name) # ""
    \/ \E j \in 1 .. Len(term.specifiers) : trim(term.specifiers[j]) # ""

\* { ...term, isCustom: true }
asCustom(term) == [term EXCEPT !.isCustom = TRUE]

\* importSimple: validTerms
validTermsOf(importedTerms) ==
    [i \in 1 .. Len(SelectSeq(importedTerms, validateSearchPattern)) |->
        asCustom(SelectSeq(importedTerms, validateSearchPattern)[i])]

\* existing.findIndex(...) counted from 1, and 0 where findIndex gives -1
findDuplicate(existing, importedTerm) ==
    IF \E i \in 1 .. Len(existing) :
          existing[i].name = importedTerm.name /\ existing[i].age = importedTerm.age
    THEN CHOOSE i \in 1 .. Len(existing) :
            /\ existing[i].name = importedTerm.name /\ existing[i].age = importedTerm.age
            /\ \A h \in 1 .. i - 1 :
                  ~(existing[h].name = importedTerm.name /\ existing[h].age = importedTerm.age)
    ELSE 0

\* Array.from(new Set(list)): the first occurrence of each element, in order
uniqueOf(list) ==
    SelectSeq([i \in 1 .. Len(list) |->
                  IF \E h \in 1 .. i - 1 : list[h] = list[i] THEN <<>> ELSE <<list[i]>>],
              LAMBDA one : one # <<>>)

\* importMerge: the merged term that replaces existing[duplicateIndex]
mergedTerm(existingTerm, importedTerm) ==
    [name |-> existingTerm.name,
     specifiers |->
        [i \in 1 .. Len(uniqueOf(existingTerm.specifiers \o importedTerm.specifiers)) |->
            uniqueOf(existingTerm.specifiers \o importedTerm.specifiers)[i][1]],
     genre |-> orElse(importedTerm.genre, existingTerm.genre),
     age |-> existingTerm.age,
     constraint |-> <<orElse(importedTerm.constraint[1], existingTerm.constraint[1]),
                      orElse(importedTerm.constraint[2], existingTerm.constraint[2])>>,
     isCustom |-> TRUE]

\* importMerge: the callback of importedTerms.forEach
mergeOne(existing, importedTerm) ==
    IF ~validateSearchPattern(importedTerm) THEN existing
    ELSE IF findDuplicate(existing, importedTerm) > 0
    THEN [existing EXCEPT ![findDuplicate(existing, importedTerm)] = mergedTerm(@, importedTerm)]
    ELSE Append(existing, asCustom(importedTerm))

RECURSIVE mergeFrom(_, _, _)
mergeFrom(existing, importedTerms, i) ==
    IF i > Len(importedTerms) THEN existing
    ELSE mergeFrom(mergeOne(existing, importedTerms[i]), importedTerms, i + 1)

\* importMerge: the list saved
mergedTermsOf(existing, importedTerms) == mergeFrom(existing, importedTerms, 1)

\* The fields of the form
FormNames == {"", " ", "GOPR"}
FormSpecifierLists == {<<"">>, <<"XXXX", " ">>}
FormGenres == {""}
FormAges == {"", "new"}

\* The terms of a file: one that says it is not custom, one with neither a
\* name nor a specifier, one that has the name and age of the first
FileTerms ==
    <<[name |-> "GOPR", genre |-> "Phone", age |-> "", specifiers |-> <<"YYYY">>,
       constraint |-> <<"after", "2020-01-01">>, isCustom |-> FALSE],
      [name |-> "", genre |-> "Custom", age |-> "", specifiers |-> <<" ">>,
       constraint |-> NoConstraint, isCustom |-> TRUE],
      [name |-> "GOPR", genre |-> "", age |-> "", specifiers |-> <<"XXXX">>,
       constraint |-> NoConstraint, isCustom |-> TRUE]>>

\* The arrays a selected file can hold
ImportFiles ==
    {<<>>, <<FileTerms[1]>>, <<FileTerms[2], FileTerms[3]>>, <<FileTerms[1], FileTerms[1]>>,
     <<FileTerms[1], FileTerms[3]>>, <<FileTerms[3], FileTerms[2], FileTerms[1]>>}

\* The page once loaded: localStorage is empty or holds a term saved on an
\* earlier visit
PoolInit ==
    /\ enableUserTerms = FALSE
    /\ customSearchTerms \in {<<>>, <<termOfForm("GOPR", <<"XXXX">>, "", "")>>}
    /\ selectedTermIndex = NoIndex
    /\ poolHandler = "idle"

\* allSearchTerms becomes terms: availableNames, selectedNames and
\* activeSearchTerms follow
TermsBecome(terms) ==
    /\ allSearchTerms' = terms
    /\ previousAvailable' = availableKeys(terms, selectedGenres)
    /\ selectedNames' = syncSelectedNames(selectedNames, previousAvailable,
                                          availableKeys(terms, selectedGenres))
    /\ activeSearchTerms' = activeOf(terms, selectedAge, selectedNames')
    /\ UNCHANGED <<selectedAge, selectedGenres, picked>>

\* if (enableUserTerms) loadCustomTermsIntoPool(), after localStorage was
\* written
ReloadIfEnabled ==
    IF enableUserTerms
    THEN TermsBecome(loadCustomTermsIntoPool(allSearchTerms, customSearchTerms'))
    ELSE UNCHANGED termVars

\* the checkbox bound to enableUserTerms, and the reactive statement
ToggleUserTerms ==
    /\ enableUserTerms' = ~enableUserTerms
    /\ TermsBecome(IF enableUserTerms'
                   THEN loadCustomTermsIntoPool(allSearchTerms, customSearchTerms)
                   ELSE removeCustomTermsFromPool(allSearchTerms))
    /\ poolHandler' = "toggle"
    /\ UNCHANGED <<customSearchTerms, selectedTermIndex>>
    /\ UNCHANGED <<libVars, graphVars, histVars>>

\* saveSearchTerm()
SaveSearchTerm ==
    /\ Len(customSearchTerms) < MaxStored
    /\ \E name \in FormNames, list \in FormSpecifierLists, genre \in FormGenres,
          age \in FormAges :
          IF nothingEntered(name, list)
          THEN UNCHANGED <<termVars, enableUserTerms, customSearchTerms, selectedTermIndex>>
          ELSE /\ customSearchTerms' =
                     Append(customSearchTerms, termOfForm(name, list, genre, age))
               /\ ReloadIfEnabled
               /\ selectedTermIndex' = NoIndex
               /\ UNCHANGED enableUserTerms
    /\ poolHandler' = "saveSearchTerm"
    /\ UNCHANGED <<libVars, graphVars, histVars>>

\* the dropdown of the saved terms: loadTermIntoForm(index) or clearForm()
LoadTermIntoForm ==
    /\ \E index \in -1 .. Len(customSearchTerms) - 1 :
          selectedTermIndex' = IF index >= 0 THEN index ELSE NoIndex
    /\ poolHandler' = "loadTermIntoForm"
    /\ UNCHANGED <<termVars, enableUserTerms, customSearchTerms>>
    /\ UNCHANGED <<libVars, graphVars, histVars>>

\* deleteCurrentTerm(), confirmed or not
DeleteCurrentTerm ==
    /\ \E confirmed \in BOOLEAN :
          IF /\ selectedTermIndex # NoIndex
             /\ selectedTermIndex >= 0 /\ selectedTermIndex < Len(customSearchTerms)
             /\ confirmed
          THEN /\ customSearchTerms' = splice(customSearchTerms, selectedTermIndex)
               /\ ReloadIfEnabled
               /\ selectedTermIndex' = NoIndex
               /\ UNCHANGED enableUserTerms
          ELSE UNCHANGED <<termVars, enableUserTerms, customSearchTerms, selectedTermIndex>>
    /\ poolHandler' = "deleteCurrentTerm"
    /\ UNCHANGED <<libVars, graphVars, histVars>>

\* importSimple(): reader.onload for a file that holds an array
ImportSimple ==
    /\ \E importedTerms \in ImportFiles :
          customSearchTerms' = validTermsOf(importedTerms)
    /\ ReloadIfEnabled
    /\ poolHandler' = "importSimple"
    /\ UNCHANGED <<enableUserTerms, selectedTermIndex>>
    /\ UNCHANGED <<libVars, graphVars, histVars>>

\* importMerge(): reader.onload for a file that holds an array
ImportMerge ==
    /\ \E importedTerms \in ImportFiles :
          /\ Len(mergedTermsOf(customSearchTerms, importedTerms)) <= MaxStored
          /\ customSearchTerms' = mergedTermsOf(customSearchTerms, importedTerms)
    /\ ReloadIfEnabled
    /\ poolHandler' = "importMerge"
    /\ UNCHANGED <<enableUserTerms, selectedTermIndex>>
    /\ UNCHANGED <<libVars, graphVars, histVars>>

\* deleteAllCustomTerms(), confirmed or not
DeleteAllCustomTerms ==
    /\ \E confirmed \in BOOLEAN :
          IF Len(customSearchTerms) > 0 /\ confirmed
          THEN /\ customSearchTerms' = <<>>
               /\ TermsBecome(removeCustomTermsFromPool(allSearchTerms))
          ELSE UNCHANGED <<termVars, customSearchTerms>>
    /\ poolHandler' = "deleteAllCustomTerms"
    /\ UNCHANGED <<enableUserTerms, selectedTermIndex>>
    /\ UNCHANGED <<libVars, graphVars, histVars>>

PoolNext ==
    \/ ToggleUserTerms \/ SaveSearchTerm \/ LoadTermIntoForm \/ DeleteCurrentTerm
    \/ ImportSimple \/ ImportMerge \/ DeleteAllCustomTerms

vars == <<intVars, dateVars, urlVars, moreVars>>

\* The functions are checked apart: each specification runs one of them
\* and leaves the state of the others idle
InitInt == IntInit /\ DateIdle /\ UrlIdle /\ MoreIdle
InitDate == DateInit /\ IntIdle /\ UrlIdle /\ MoreIdle
Init == UrlInit /\ IntIdle /\ DateIdle /\ MoreIdle
InitValidate == ValInit /\ IntIdle /\ DateIdle /\ UrlIdle /\ PairIdle /\ PdfIdle /\ UiIdle
InitPair == PairInit /\ IntIdle /\ DateIdle /\ UrlIdle /\ ValIdle /\ PdfIdle /\ UiIdle
InitPdf == PdfInit /\ IntIdle /\ DateIdle /\ UrlIdle /\ ValIdle /\ PairIdle /\ UiIdle
LibIdle == IntIdle /\ DateIdle /\ UrlIdle /\ ValIdle /\ PairIdle /\ PdfIdle
InitGraph == GraphInit /\ LibIdle /\ PageIdle
InitTerms == TermInit /\ LibIdle /\ GraphIdle /\ HistIdle /\ PoolIdle
InitHistory == HistInit /\ LibIdle /\ GraphIdle /\ TermIdle /\ PoolIdle
InitPool == TermInit /\ PoolInit /\ LibIdle /\ GraphIdle /\ HistIdle

SpecInt == InitInt /\ [][IntNext]_vars
SpecDate == InitDate /\ [][DateNext]_vars
Spec == Init /\ [][UrlNext]_vars
SpecValidate == InitValidate /\ [][ValNext]_vars
SpecPair == InitPair /\ [][PairNext]_vars
SpecPdf == InitPdf /\ [][PdfNext]_vars
SpecGraph == InitGraph /\ [][GraphNext]_vars
SpecTerms == InitTerms /\ [][TermNext]_vars
SpecHistory == InitHistory /\ [][HistNext]_vars
SpecPool == InitPool /\ [][PoolNext]_vars
\* The browser runs every requested frame that is not cancelled, and Svelte
\* runs every update it has scheduled
SpecGraphLive ==
    SpecGraph /\ WF_vars(ReactiveStatement) /\ WF_vars(AfterUpdate) /\ WF_vars(FrameFires)

\* ------------------------------------------------------------------------
\* C1: generateConstrainedInteger returns an integer v with min <= v <= max
\* for every config type, center, spread and maxAttempts, whatever the draws.
\* ------------------------------------------------------------------------
C1_RangeContainment == ipc = "done" => (min <= ret /\ ret <= max)

\* a non-uniform call whose last draw fell outside the range and was clamped
C1_Witness ==
    /\ ipc = "done"
    /\ config.type # "uniform"
    /\ maxAttempts >= 1
    /\ attempts = maxAttempts
    /\ value > max
    /\ ret = max

\* ------------------------------------------------------------------------
\* C2: generateConstrainedDate returns a date whose timestamp t satisfies
\* start <= t <= end for every config type and maxAttempts, whatever the draws.
\* ------------------------------------------------------------------------
C2_DateContainment == dpc = "done" => (startTime <= dret /\ dret <= endTime)

\* a non-uniform call whose last draw fell before the range and was clamped
C2_Witness ==
    /\ dpc = "done"
    /\ dconfig.type # "uniform"
    /\ dmaxAttempts >= 1
    /\ dattempts = dmaxAttempts
    /\ time < startTime * Scale
    /\ dret = startTime

\* ------------------------------------------------------------------------
\* Texts the claims below compare the results with, written out digit by digit
\* ------------------------------------------------------------------------
Digit(n) == HexDigits[n + 1]
TwoDigits(n) == <<Digit(n \div 10), Digit(n % 10)>>
FourDigits(n) == TwoDigits(n \div 100) \o TwoDigits(n % 100)
PlainNumber(n) == IF n < 10 THEN <<Digit(n)>> ELSE TwoDigits(n)
UpperLetters == {Ascii[i - 31] : i \in 65 .. 90}

\* before:YYYY-MM-DD of the date, month and day with two digits
BeforePadded(d) ==
    <<"b", "e", "f", "o", "r", "e", ":">> \o FourDigits(d.year) \o <<"-">> \o TwoDigits(d.month + 1)
        \o <<"-">> \o TwoDigits(d.date)

\* before:YYYY-M-D of the date, month and day without a leading zero
BeforePlain(d) ==
    <<"b", "e", "f", "o", "r", "e", ":">> \o FourDigits(d.year) \o <<"-">> \o PlainNumber(d.month + 1)
        \o <<"-">> \o PlainNumber(d.date)

HasYearToken == specifier # Undefined /\ includes(specifier, <<"Y", "Y", "Y", "Y">>)

Formatted == upc = "formatted" /\ ~out.threw

\* s starts and ends with a double quote
IsQuoted(s) == Len(s) >= 2 /\ s[1] = "\"" /\ s[Len(s)] = "\""

\* the first four consecutive digits of s, <<>> when there are none
FirstFourDigits(s) ==
    LET at(i) == i + 3 <= Len(s) /\ \A j \in i .. (i + 3) : s[j] \in DigitChars
    IN IF \E i \in 1 .. Len(s) : at(i)
       THEN LET i == CHOOSE j \in 1 .. Len(s) : at(j) /\ \A h \in 1 .. (j - 1) : ~at(h)
            IN SubSeq(s, i, i + 3)
       ELSE <<>>

\* ------------------------------------------------------------------------
\* C3: with dateOverride set, for every pattern, age and specifier (those
\* with YYYY included), the date filter of formatSearchTermToURL is
\* before:<year>-<month>-<day> of the supplied date with month and day padded
\* to two digits, and it follows the quoted term in the search query.
\* ------------------------------------------------------------------------
C3_OverrideBefore ==
    (Formatted /\ dateOverride) =>
        /\ out.dateFilter = BeforePadded(formattedDate)
        /\ out.fullSearchTerm = out.searchTerm \o <<" ">> \o BeforePadded(formattedDate)

\* an overridden call whose specifier holds YYYY and whose pattern is "new"
C3_Witness ==
    /\ Formatted
    /\ dateOverride
    /\ HasYearToken
    /\ ageOf(pattern) = "new"
    /\ out.dateFilter = <<"b", "e", "f", "o", "r", "e", ":", "2", "0", "2", "4", "-", "0", "3", "-", "1", "5">>

\* ------------------------------------------------------------------------
\* C4: without override, a specifier that holds YYYY always gives the filter
\* after:<year>-<month>-<day>, for every pattern name and age, <year> being
\* the first four-digit run of the filled term and month and day unpadded.
\* ------------------------------------------------------------------------
C4_YearAlwaysAfter ==
    (Formatted /\ ~dateOverride /\ HasYearToken) =>
        out.dateFilter = <<"a", "f", "t", "e", "r", ":">> \o FirstFourDigits(out.searchTerm) \o <<"-">>
                            \o PlainNumber(formattedDate.month + 1) \o <<"-">>
                            \o PlainNumber(formattedDate.date)

\* ------------------------------------------------------------------------
\* C5 (as amended): without override, for a specifier without YYYY and a
\* pattern of age "old", the search query is the quoted filled term, a blank
\* and before:<year>-<month>-<day> of the reference date with month and day
\* padded to two digits; 2024-03-15 and "XXXX" give a quoted term ending in
\* four digits followed by before:2024-03-15.
\* ------------------------------------------------------------------------
C5_OldBeforePadded ==
    (Formatted /\ ~dateOverride /\ ~HasYearToken /\ ageOf(pattern) = "old") =>
        /\ IsQuoted(out.searchTerm)
        /\ out.fullSearchTerm = out.searchTerm \o <<" ">> \o BeforePadded(formattedDate)
        /\ (specifier = <<"X", "X", "X", "X">> /\ formattedDate.year = 2024 /\ formattedDate.month = 2) =>
              /\ out.dateFilter = <<"b", "e", "f", "o", "r", "e", ":", "2", "0", "2", "4", "-", "0", "3", "-", "1", "5">>
              /\ Len(out.searchTerm) = Len(pattern.name) + 6
              /\ \A i \in 1 .. 4 : out.searchTerm[Len(pattern.name) + 1 + i] \in DigitChars

\* the scenario of the claim: "XXXX", age "old", reference date 2024-03-15
C5_Witness ==
    /\ Formatted
    /\ ~dateOverride
    /\ ageOf(pattern) = "old"
    /\ specifier = <<"X", "X", "X", "X">>
    /\ out.fullSearchTerm = <<"\"", "a", " ", "7", "5", "0", "0", "\"", " ", "b", "e", "f", "o", "r", "e", ":", "2", "0", "2", "4", "-", "0", "3", "-", "1", "5">>

\* C5 as stated: month and day of the before: filter have no leading zero
C5_OldBeforePlain ==
    (Formatted /\ ~dateOverride /\ ~HasYearToken /\ ageOf(pattern) = "old") =>
        out.fullSearchTerm = out.searchTerm \o <<" ">> \o BeforePlain(formattedDate)

\* ------------------------------------------------------------------------
\* C6: without override, for a specifier without YYYY and a pattern of age
\* "new" or "", no date filter is emitted: the search_query value is exactly
\* the double-quoted term, with no trailing blank and no before:/after: text.
\* ------------------------------------------------------------------------
C6_NoFilter ==
    (Formatted /\ ~dateOverride /\ ~HasYearToken /\ ageOf(pattern) \in {"new", ""}) =>
        /\ out.dateFilter = <<>>
        /\ IsQuoted(out.fullSearchTerm)
        /\ out.fullSearchTerm = out.searchTerm
        /\ ~includes(out.fullSearchTerm, <<"b", "e", "f", "o", "r", "e", ":">>)
        /\ ~includes(out.fullSearchTerm, <<"a", "f", "t", "e", "r", ":">>)
        /\ out.url = <<"h", "t", "t", "p", "s", ":", "/", "/", "w", "w", "w", ".", "y", "o", "u", "t", "u", "b", "e", ".", "c", "o", "m", "/", "r", "e", "s", "u", "l", "t", "s", "?", "s", "e", "a", "r", "c", "h", "_", "q", "u", "e", "r", "y", "=">>
                        \o urlEncode(out.searchTerm) \o <<"&", "s", "p", "=", "C", "A", "I", "S", "A", "h", "A", "B">>

\* a "new" pattern with a date specifier: the query is the quoted term alone
C6_Witness ==
    /\ Formatted
    /\ ~dateOverride
    /\ ageOf(pattern) = "new"
    /\ specifier = <<"M", "o", "n", " ", "D", "D">>
    /\ out.fullSearchTerm = <<"\"", "a", " ", "M", "a", "r", " ", "1", "5", "\"">>

\* ------------------------------------------------------------------------
\* C7: fillSpecifierTemplate and formatSearchTermToURL return a string and
\* never throw, for every pattern, those without constraints, age or date
\* fields (custom terms built by developSearchTerm) included.
\* ------------------------------------------------------------------------
C7_NeverThrows ==
    /\ upc = "formatted" => ~out.threw
    /\ upc = "filled" => ~filled.threw

C9_TwoUpperLetters ==
    (/\ upc = "filled"
     /\ specifier = <<"X", "X">>
     /\ "constraints" \in DOMAIN pattern
     /\ pattern.constraints = <<Constraint("letter-range", <<"6", "5", "-", "9", "0">>)>>) =>
        /\ ~filled.threw
        /\ Len(filled.value) = 2
        /\ \A i \in 1 .. 2 : filled.value[i] \in UpperLetters

\* ------------------------------------------------------------------------
\* C10: when formatSearchTermToURL is called with an integer distribution
\* config as fifth argument, the values of the X-runs are drawn with
\* generateConstrainedInteger; only without a config are they drawn uniformly.
\* ------------------------------------------------------------------------
C10_ConfigDrivesSampler ==
    (Formatted /\ runsOf(specifier, formattedDate) # <<>>) =>
        out.sampler = IF integerConfig # <<>> THEN "generateConstrainedInteger"
                      ELSE "getRandomInt"

\* ------------------------------------------------------------------------
\* C11: validateDistribution reports as successRate the fraction of its
\* single-attempt samples that land inside [min, max] before any clamping,
\* so a config whose draws fall outside gets a rate below 1, and valid is
\* true exactly when that fraction is at least 0.8.
\* ------------------------------------------------------------------------
C11_RateBeforeClamp ==
    (vpc = "done" /\ vconfig.type # "uniform") =>
        /\ vret.num * sampleSize = naturalCount * vret.den
        /\ (naturalCount < sampleSize => vret.num < vret.den)
        /\ (vret.valid <=> 5 * naturalCount >= 4 * sampleSize)

\* ------------------------------------------------------------------------
\* Reading a URL back: its query string, its parameters, percent-decoding
\* ------------------------------------------------------------------------
ResultsPage == <<"h", "t", "t", "p", "s", ":", "/", "/", "w", "w", "w", ".", "y", "o", "u", "t", "u", "b", "e", ".", "c", "o", "m", "/", "r", "e", "s", "u", "l", "t", "s", "?">>
StartsWith(s, prefix) == Len(prefix) <= Len(s) /\ SubSeq(s, 1, Len(prefix)) = prefix
After(s, prefix) == SubSeq(s, Len(prefix) + 1, Len(s))
HexValue(c) == CHOOSE n \in 0 .. 15 : HexDigits[n + 1] = c

RECURSIVE PercentDecode(_)
PercentDecode(s) ==
    IF s = <<>> THEN <<>>
    ELSE IF Head(s) = "+" THEN <<" ">> \o PercentDecode(Tail(s))
    ELSE IF Head(s) = "%"
         THEN <<Ascii[16 * HexValue(s[2]) + HexValue(s[3]) - 31]>>
                 \o PercentDecode(SubSeq(s, 4, Len(s)))
    ELSE <<Head(s)>> \o PercentDecode(Tail(s))

\* the parameters of a URL, each as it stands between the "&"
QueryParameters(url) == split(After(url, ResultsPage), "&")

\* the search term formatSearchTermToURL builds before it adds the quotes
TermOfCall == generateSearchTerm(pattern.name, specifier, pattern, formattedDate, draws).value

TwoParameters(params) ==
    /\ Len(params) = 2
    /\ StartsWith(params[1], <<"s", "e", "a", "r", "c", "h", "_", "q", "u", "e", "r", "y", "=">>)
    /\ PercentDecode(After(params[1], <<"s", "e", "a", "r", "c", "h", "_", "q", "u", "e", "r", "y", "=">>)) = out.fullSearchTerm
    /\ params[2] = <<"s", "p", "=", "C", "A", "I", "S", "A", "h", "A", "B">>

\* ------------------------------------------------------------------------
\* C12: formatSearchTermToURL returns https://www.youtube.com/results?
\* followed by exactly two parameters in this order: search_query, whose
\* decoded value starts with the whole search term wrapped in one pair of
\* double quotes, and sp=CAISAhAB, for every pattern, specifier, date and
\* override flag.
\* ------------------------------------------------------------------------
C12_UrlShape ==
    Formatted =>
        /\ StartsWith(out.url, ResultsPage)
        /\ TwoParameters(QueryParameters(out.url))
        /\ StartsWith(out.fullSearchTerm, <<"\"">> \o TermOfCall \o <<"\"">>)

\* a name made of the characters a query string gives a meaning to
C12_Witness ==
    /\ Formatted
    /\ pattern.name = <<"&", "=", "+", "%", "\"">>
    /\ specifier = <<"Y", "Y", "Y", "Y">>
    /\ dateOverride
    /\ out.url = <<"h", "t", "t", "p", "s", ":", "/", "/", "w", "w", "w", ".", "y", "o", "u", "t", "u", "b", "e", ".", "c", "o", "m", "/", "r", "e", "s", "u", "l", "t", "s", "?", "s", "e", "a", "r", "c", "h", "_", "q", "u", "e", "r", "y", "=", "%", "2", "2", "%", "2", "6", "%", "3", "D", "%", "2", "B", "%", "2", "5", "%", "2", "2", "2", "0", "2", "4", "%", "2", "2", "+", "b", "e", "f", "o", "r", "e", "%", "3", "A", "2", "0", "2", "4", "-", "0", "3", "-", "1", "5", "&", "s", "p", "=", "C", "A", "I", "S", "A", "h", "A", "B">>

\* ------------------------------------------------------------------------
\* C13: the search term is the pattern name immediately followed by the
\* filled specifier, with no separator added; for an empty specifier it is
\* exactly the pattern name. (formatSearchTermToURL then wraps it in quotes.)
\* ------------------------------------------------------------------------
C13_NameThenSpecifier ==
    Formatted =>
        /\ out.searchTerm = <<"\"">> \o pattern.name
              \o fillSpecifierTemplate(specifier, pattern, formattedDate, draws).value \o <<"\"">>
        /\ specifier = <<>> => out.searchTerm = <<"\"">> \o pattern.name \o <<"\"">>
        /\ (specifier = <<"M", "o", "n", " ", "D", "D">> /\ formattedDate.month = 2) =>
              out.searchTerm = <<"\"">> \o pattern.name \o <<"M", "a", "r", " ", "1", "5", "\"">>

\* a name that ends in a word character, joined to the month without a blank
C13_Witness ==
    /\ Formatted
    /\ pattern.name = <<"a", "_">>
    /\ specifier = <<"M", "o", "n", " ", "D", "D">>
    /\ out.searchTerm = <<"\"", "a", "_", "M", "a", "r", " ", "1", "5", "\"">>

\* ------------------------------------------------------------------------
\* C14: with config.type = "uniform", generateConstrainedInteger ignores
\* center, spread, degreesOfFreedom and maxAttempts: two calls with the same
\* min, max and random draw return the same value whatever those fields
\* are, and every integer of [min, max] is the result of some draw.
\* ------------------------------------------------------------------------
C14_UniformIgnoresShape ==
    ppc = "done" =>
        /\ pretA = pretB
        /\ pretA \in pmin .. pmax
        /\ \A v \in pmin .. pmax :
              \E k \in RandomDraws : uniformPath(pmin, pmax, pconfigB, plimitB, k) = v

\* two configs that differ in every ignored field, and the top of the range drawn
C14_Witness ==
    /\ ppc = "done"
    /\ pconfigA.center # pconfigB.center
    /\ pconfigA.spread # pconfigB.spread
    /\ pconfigA.degreesOfFreedom # pconfigB.degreesOfFreedom
    /\ plimitA # plimitB
    /\ pmin < pmax
    /\ pretA = pmax
    /\ pretB = pmax

\* ------------------------------------------------------------------------
\* C15: for every config with center and spread in [0, 1] and every
\* pointCount >= 2, generatePDFCurve returns exactly pointCount values, all
\* >= 0, whose maximum equals 1.0.
\* ------------------------------------------------------------------------
C15_CurvePeaksAtOne ==
    gpc = "done" =>
        /\ Len(curve) = pointCount
        /\ \A j \in 1 .. Len(curve) : curve[j] >= 0
        /\ \E j \in 1 .. Len(curve) : curve[j] = HeightDen
        /\ \A j \in 1 .. Len(curve) : curve[j] <= HeightDen

\* ------------------------------------------------------------------------
\* The X-runs of a call of fillSpecifierTemplate and what is drawn for them
\* ------------------------------------------------------------------------
Filled == upc = "filled" /\ ~filled.threw /\ specifier # Undefined

\* the runs of X the call found, in order
RunsOfCall == runsOf(specifier, formattedDate)

\* the text the call generated for its i-th run
TextOfRun(i) == paddedReplacement(pattern.constraints, Len(RunsOfCall[i]), draws[i])

\* ------------------------------------------------------------------------
\* C16: for every X-run of length n, every constraint type (none, range,
\* letter-range, hex-range) and every parsed range, the text that
\* fillSpecifierTemplate substitutes for the run has exactly n characters.
\* ------------------------------------------------------------------------
C16_RunKeepsLength ==
    Filled =>
        \A i \in 1 .. Len(RunsOfCall) : Len(TextOfRun(i)) = Len(RunsOfCall[i])

\* ------------------------------------------------------------------------
\* Constraint values as the claims read them
\* ------------------------------------------------------------------------
IsInt(s) == s # <<>> /\ \A i \in 1 .. Len(s) : s[i] \in DigitChars

RECURSIVE IntOf(_)
IntOf(s) ==
    IF s = <<>> THEN 0
    ELSE 10 * IntOf(SubSeq(s, 1, Len(s) - 1)) + HexValue(s[Len(s)])

\* the value has the form "<int>-<int>" with min <= max
WellFormedRange(v) ==
    /\ Len(split(v, "-")) = 2
    /\ IsInt(split(v, "-")[1])
    /\ IsInt(split(v, "-")[2])
    /\ IntOf(split(v, "-")[1]) <= IntOf(split(v, "-")[2])

WellFormed(constraint) == WellFormedRange(constraint.value)

\* the pattern of the call carries a list of constraints
HasConstraints == "constraints" \in DOMAIN pattern

\* the pattern of the call with a list of constraints in place of its own
PatternWith(constraints) == [pattern EXCEPT !.constraints = constraints]

\* what the call would return for the same draws with that list of constraints
FilledWith(constraints) ==
    fillSpecifierTemplate(specifier, PatternWith(constraints), formattedDate, draws)

\* ------------------------------------------------------------------------
\* C17: a constraint of type range, letter-range or hex-range whose value is
\* not of the form "<int>-<int>" with min <= max is ignored by
\* fillSpecifierTemplate: the X-runs are filled exactly as if that
\* constraint were absent.
\* ------------------------------------------------------------------------
C17_MalformedIgnored ==
    (Filled /\ HasConstraints) => filled = FilledWith(SelectSeq(pattern.constraints, WellFormed))


\* the constraints of the call that the code parses to a range
Parseable(constraint) ==
    /\ constraint.type \in {"range", "letter-range", "hex-range"}
    /\ ~parseRangeConstraint(constraint.value).isNull

ParseableOfCall == SelectSeq(pattern.constraints, Parseable)

SeveralTypes(constraints) ==
    \E i, j \in 1 .. Len(constraints) : constraints[i].type # constraints[j].type

\* ------------------------------------------------------------------------
\* C18: when a pattern carries several parseable constraints of different
\* types, the last one in list order alone decides min, max and the
\* rendering type of every run: the call returns what it returns with that
\* constraint as the only one.
\* ------------------------------------------------------------------------
C18_LastConstraintWins ==
    (Filled /\ HasConstraints /\ SeveralTypes(ParseableOfCall)) =>
        filled = FilledWith(<<ParseableOfCall[Len(ParseableOfCall)]>>)

C18_Witness ==
    /\ Filled
    /\ specifier = <<"X">>
    /\ pattern.constraints = <<Constraint("range", <<"1", "-", "1", "2">>), Constraint("letter-range", <<"6", "5", "-", "9", "0">>)>>
    /\ draws = <<0>>
    /\ filled.value = <<"A">>


\* the template of the call once its date and time placeholders are filled
DatedTemplate == fillDateTokens(specifier, formattedDate)

RECURSIVE FillInPlaceFrom(_, _, _)
FillInPlaceFrom(s, i, k) ==
    IF i > Len(s) THEN <<>>
    ELSE IF s[i] = "X"
         THEN TextOfRun(k) \o FillInPlaceFrom(s, i + runLength(s, i), k + 1)
         ELSE <<s[i]>> \o FillInPlaceFrom(s, i + 1, k)

\* the template with its k-th run of X replaced, where it stands, by the
\* k-th generated text
FillInPlace(s) == FillInPlaceFrom(s, 1, 1)

\* ------------------------------------------------------------------------
\* C19: every maximal run of X of the template is replaced at its own
\* position: the k-th generated value lands where the k-th run stood and no
\* X of the template is left unreplaced, for every constraint type and
\* range.
\* ------------------------------------------------------------------------
C19_RunsReplacedInPlace ==
    (Filled /\ HasConstraints) => filled.value = FillInPlace(DatedTemplate)


\* The text each placeholder stands for, under the name of the placeholder.
\* A mark is one symbol of the string that no placeholder can match.
TextOfMark(mark, d) ==
    CASE mark = "<YYYY>" -> padded(d.year, 4)
      [] mark = "<Month>" -> monthNames[d.month + 1]
      [] mark = "<Mon>" -> shortMonthNames[d.month + 1]
      [] mark = "<MM>" -> padded(d.month + 1, 2)
      [] mark = "<DD>" -> padded(d.date, 2)
      [] mark = "<HH>" -> padded(d.hours, 2)
      [] mark = "<mm>" -> padded(d.minutes, 2)
      [] mark = "<SS>" -> padded(d.seconds, 2)
      [] OTHER -> <<mark>>

\* the placeholders of the template marked in the order YYYY, Month, Mon,
\* MM, DD, HH, mm, SS: what one placeholder wrote is closed to the next ones
MarkedTemplate(spc) ==
    replaceToken(
     replaceToken(
      replaceToken(
       replaceToken(
        replaceToken(
         replaceToken(
          replaceToken(
           replaceToken(spc, <<"Y", "Y", "Y", "Y">>, <<"<YYYY>">>),
           <<"M", "o", "n", "t", "h">>, <<"<Month>">>),
          <<"M", "o", "n">>, <<"<Mon>">>),
         <<"M", "M">>, <<"<MM>">>),
        <<"D", "D">>, <<"<DD>">>),
       <<"H", "H">>, <<"<HH>">>),
      <<"m", "m">>, <<"<mm>">>),
     <<"S", "S">>, <<"<SS>">>)

RECURSIVE ExpandMarks(_, _)
ExpandMarks(s, d) ==
    IF s = <<>> THEN <<>> ELSE TextOfMark(Head(s), d) \o ExpandMarks(Tail(s), d)

\* the template with every placeholder filled and nothing rewritten
FilledOnce == ExpandMarks(MarkedTemplate(specifier), formattedDate)

\* ------------------------------------------------------------------------
\* C20: with the placeholders processed in the order YYYY, Month, Mon, MM,
\* DD, HH, mm, SS and the X-runs last, no text written by the replacement of
\* one placeholder is matched and rewritten by a later one, for every date
\* and every template: the date and time part of the result is the template
\* with each placeholder filled once, and the X-runs filled are those of the
\* template.
\* ------------------------------------------------------------------------
C20_NoRewriteOfWrittenText ==
    Filled =>
        /\ DatedTemplate = FilledOnce
        /\ xMatches(DatedTemplate) = xMatches(specifier)
        /\ filled = fillRuns(FilledOnce, pattern, draws)


Marks == {"<YYYY>", "<Month>", "<Mon>", "<MM>", "<DD>", "<HH>", "<mm>", "<SS>"}

\* a symbol of the marked template that stands for generated text
IsHole(c) == c \in Marks \/ c = "X"

\* length of the stretch of holes that starts at position i
RECURSIVE holeLength(_, _)
holeLength(s, i) == IF i > Len(s) \/ ~IsHole(s[i]) THEN 0 ELSE 1 + holeLength(s, i + 1)

\* text is the marked template s from position i on, with any text in the
\* place of each stretch of placeholders and X-runs and every other
\* character kept where it stands
RECURSIVE KeepsLiterals(_, _, _)
KeepsLiterals(s, i, text) ==
    IF i > Len(s) THEN text = <<>>
    ELSE IF IsHole(s[i])
         THEN \E n \in 0 .. Len(text) :
                KeepsLiterals(s, i + holeLength(s, i), SubSeq(text, n + 1, Len(text)))
         ELSE /\ text # <<>>
              /\ Head(text) = s[i]
              /\ KeepsLiterals(s, i + 1, Tail(text))

\* ------------------------------------------------------------------------
\* C21: every character of the specifier that is not part of a YYYY, Month,
\* Mon, MM, DD, HH, mm or SS token or of an X-run appears unchanged and in
\* the same relative order in the output of fillSpecifierTemplate.
\* ------------------------------------------------------------------------
C21_LiteralsKept ==
    Filled => KeepsLiterals(MarkedTemplate(specifier), 1, filled.value)


\* ------------------------------------------------------------------------
\* C22: for the specifier "HHMMSS", fillSpecifierTemplate yields the
\* two-digit hour, the two-digit minute and the two-digit second of the
\* reference time, in that order (14:30:59 gives 143059).
\* ------------------------------------------------------------------------
C22_HourMinuteSecond ==
    (Filled /\ specifier = <<"H", "H", "M", "M", "S", "S">>) =>
        filled.value = padded(formattedDate.hours, 2) \o padded(formattedDate.minutes, 2)
                           \o padded(formattedDate.seconds, 2)


\* the draws of the call that fell outside [min, max]
Outside(v) == v < min \/ v > max

\* ------------------------------------------------------------------------
\* C23: for a non-uniform config, generateConstrainedInteger terminates
\* after at most max(1, maxAttempts) rounded draws, stops at the first draw
\* inside [min, max], and the final clamp changes the value only when every
\* draw made fell outside [min, max].
\* ------------------------------------------------------------------------
C23_BoundedDraws ==
    (ipc = "done" /\ config.type # "uniform") =>
        /\ Len(drawn) >= 1
        /\ Len(drawn) <= MathMax(1, maxAttempts)
        /\ \A i \in 1 .. (Len(drawn) - 1) : Outside(drawn[i])
        /\ (ret # drawn[Len(drawn)] => \A i \in 1 .. Len(drawn) : Outside(drawn[i]))
        /\ (~Outside(drawn[Len(drawn)]) => ret = drawn[Len(drawn)])

C23_Witness ==
    /\ ipc = "done"
    /\ config.type = "bell"
    /\ maxAttempts = 2
    /\ Len(drawn) = 2
    /\ Outside(drawn[1])
    /\ ~Outside(drawn[2])
    /\ ret = drawn[2]


BothCurves == gpc = "done" /\ gdpc = "done"

\* the heights of the date curve are those of generatePDFCurve, point by point
SameHeights ==
    /\ Len(gcurve) = pointCount
    /\ Len(curve) = pointCount
    /\ \A j \in 1 .. pointCount : gcurve[j].pdf = curve[j]

\* the time start + (i / (n - 1)) * (end - start), times n - 1
LinearTime(i) == gstartTime * (pointCount - 1) + i * (gendTime - gstartTime)

SameConfigCall ==
    /\ flush \in {"reactive", "afterUpdate"}
    /\ canvas
    /\ JSONstringify(propConfig) = lastConfigString
    /\ propConfig' = propConfig

\* ------------------------------------------------------------------------
\* C25: in DistributionGraph at most one redraw callback is pending at any
\* time, and it is the one animationFrameId names: scheduleRedraw cancels
\* the pending animation frame before requesting a new one; a call with a
\* config equal to the last seen config schedules nothing. This holds after
\* any interleaving of config changes, afterUpdate calls and animation
\* frames firing.
\* ------------------------------------------------------------------------
C25_OneFramePending ==
    /\ [](Cardinality(frames) <= 1 /\ frames \subseteq {animationFrameId})
    /\ [][SameConfigCall => UNCHANGED <<frames, animationFrameId, frameCount>>]_vars

C25_Witness ==
    /\ flush = "off"
    /\ changes = 1
    /\ frameCount = 2
    /\ frames = {2}
    /\ animationFrameId = 2


\* the canvas shows the config the component holds
CanvasCurrent == drawnConfig = JSONstringify(propConfig)

\* ------------------------------------------------------------------------
\* C26: in DistributionGraph, after any sequence of config changes, if
\* animation frames keep firing then drawGraph eventually runs with the
\* most recent config: once the changes end, the canvas of a mounted
\* component comes to show the last config and keeps showing it. A change
\* is never lost because an earlier pending frame was cancelled or because
\* lastConfigString was updated before the draw happened.
\* ------------------------------------------------------------------------
C26_LastConfigDrawn == <>[](canvas => CanvasCurrent /\ frames = {})

C26_Witness ==
    /\ canvas
    /\ flush = "off"
    /\ changes >= 2
    /\ frameCount >= 3
    /\ frames = {}
    /\ CanvasCurrent
    /\ lastConfigString = JSONstringify(propConfig)


\* ------------------------------------------------------------------------
\* C27: every pattern in activeSearchTerms, and so every pattern Find
\* Videos can pick, has at least one specifier whose name|||specifier key
\* is in selectedNames, for every combination of selectedAge,
\* selectedGenres and selectedNames.
\* ------------------------------------------------------------------------
C27_ActiveTermsSelected ==
    /\ \A i \in 1 .. Len(activeSearchTerms) :
          hasMatchingSpecifier(activeSearchTerms[i], selectedNames)
    /\ (picked.found => displayKey(picked.pattern.name, picked.specifier) \in selectedNames)


SearchQuery == <<"s", "e", "a", "r", "c", "h", "_", "q", "u", "e", "r", "y", "=">>

\* the decoded search_query of a URL of the results page
QueryOf(url) == PercentDecode(After(QueryParameters(url)[1], SearchQuery))

\* ------------------------------------------------------------------------
\* C28: in each history entry added by handleFindVideos, the stored
\* specifier is the filled value that appears inside the stored URL: the
\* entry's name followed by its specifier is the quoted search term of its
\* url, for every pattern and specifier.
\* ------------------------------------------------------------------------
C28_HistoryMatchesUrl ==
    upc = "found" =>
        StartsWith(QueryOf(entry.url), <<"\"">> \o entry.name \o entry.specifier \o <<"\"">>)


\* ------------------------------------------------------------------------
\* C29: starting with no cookies, after any sequence of
\* togglePersistentHistory, confirmDisablePersistentHistory,
\* cancelDisablePersistentHistory, clearSearchHistory and handleFindVideos,
\* no searchHistory cookie is stored whenever enablePersistentHistory is
\* false, and enablePersistentHistory goes from true to false only through
\* confirmDisablePersistentHistory, which also empties the history held in
\* memory.
\* ------------------------------------------------------------------------
C29_NoCookieWhenDisabled ==
    /\ [](~enablePersistentHistory => ~hasCookie(cookies, "searchHistory"))
    /\ [][(enablePersistentHistory /\ ~enablePersistentHistory') =>
             /\ lastHandler' = "confirmDisablePersistentHistory"
             /\ searchHistory' = <<>>]_vars
    /\ [](lastHandler = "confirmDisablePersistentHistory" =>
             ~enablePersistentHistory /\ searchHistory = <<>> /\ cookies = {})

C29_Witness ==
    /\ lastHandler = "confirmDisablePersistentHistory"
    /\ ~enablePersistentHistory
    /\ searchHistory = <<>>
    /\ ~hasCookie(cookies, "searchHistory")

\* ------------------------------------------------------------------------
\* C30: after any sequence of enabling or disabling custom terms,
\* saveSearchTerm, deleteCurrentTerm, imports and deleteAllCustomTerms,
\* allSearchTerms holds no custom term while enableUserTerms is false, and
\* while it is true holds each stored custom term exactly once (as many
\* times as localStorage holds it), with every built-in term kept and never
\* duplicated.
\* ------------------------------------------------------------------------
\* how many times list holds term
occurrences(list, term) == Cardinality({i \in 1 .. Len(list) : list[i] = term})

BuiltInsKeptOnce ==
    \A i \in 1 .. Len(builtInTerms) : occurrences(allSearchTerms, builtInTerms[i]) = 1

NoCustomInPool == \A i \in 1 .. Len(allSearchTerms) : ~allSearchTerms[i].isCustom

StoredInPoolOnce ==
    /\ \A i \in 1 .. Len(customSearchTerms) :
          occurrences(allSearchTerms, customSearchTerms[i])
              = occurrences(customSearchTerms, customSearchTerms[i])
    /\ \A i \in 1 .. Len(allSearchTerms) :
          allSearchTerms[i].isCustom => occurrences(customSearchTerms, allSearchTerms[i]) > 0

C30_PoolFollowsStore ==
    /\ BuiltInsKeptOnce
    /\ ~enableUserTerms => NoCustomInPool
    /\ enableUserTerms => StoredInPoolOnce

C30_Witness ==
    /\ enableUserTerms
    /\ poolHandler = "importMerge"
    /\ Len(customSearchTerms) = MaxStored
    /\ Len(allSearchTerms) = Len(builtInTerms) + MaxStored
    /\ selectedTermIndex # NoIndex

====
